---- MODULE Spec2Model ----
(***************************************************************************)
(* Model of the thread-safe singly linked list of src/src/linkedlist.c.    *)
(*                                                                         *)
(* One LinkedList object is shared by the threads of Threads.  Every       *)
(* library call is cut into the steps between which another thread can be  *)
(* scheduled: the argument checks and allocations done before the lock is  *)
(* taken, pthread_mutex_lock, the statements executed under the lock,      *)
(* pthread_mutex_unlock and the statements executed after the lock was     *)
(* released.  Nodes are never handed out twice by malloc, so that an       *)
(* access to a freed node and a second free of a node stay visible         *)
(* (variable fault).                                                       *)
(***************************************************************************)
EXTENDS Integers, Sequences, FiniteSets, TLC

(***************************************************************************)
(* Bounds of the model.                                                    *)
(***************************************************************************)
NumThreads == 2       \* threads calling into the list
MaxCalls   == 2       \* calls issued by each thread of a concurrent run
SeqCalls   == 4       \* calls issued by the single thread of a sequential run
FairCalls  == 1       \* calls issued by each thread of a fair run
LifeCalls  == 6       \* calls issued by the single thread of a lifetime run
MaxNodes   == 4       \* ListItem objects malloc can hand out
MaxValue   == 2       \* distinct item values 1..MaxValue
MaxIndex   == 3       \* indices 0..MaxIndex passed to remove/get/update
MaxNatives == 2       \* native locks malloc can hand out to the lock layer
MutexBudget == 3      \* calls into the lock layer issued by each thread
RaceCalls == 3        \* calls of the thread that initializes and destroys

(***************************************************************************)
(* Program constants.                                                      *)
(***************************************************************************)
LINKEDLIST_SUCCESS == 0
LINKEDLIST_MUTEX_SUCCESS == 0
ENOMEM == 12
EINVAL == 22
EAGAIN == 11          \* a status of pthread_mutex_lock() other than 0
ERANGE == 34
ItemSize == 4         \* sizeof(int), the item size of the integer example

\* Pointers are numbers and NULL is 0; nodes are the addresses 1..MaxNodes.
NULL == 0
LIST == NULL + 1      \* address of the one LinkedList object
BUF  == NULL + 1      \* address of a caller-owned output buffer
HANDLE == NULL + 1    \* address of the one linkedlist_mutex_t handle

\* Addresses of the functions a list can hold as hooks.
memcpy             == NULL + 1
bytebuffer_copy    == NULL + 2
bytebuffer_dealloc == NULL + 3

\* Contents that are no item value (item values are 1..MaxValue).
UNSET    == 0 - 1     \* an output buffer the library did not write
RELEASED == 0 - 2     \* a value after the dealloc hook ran on it
NONE     == 0 - 3     \* no status yet, no result, a loop that does not end

\* States of LinkedList._lock besides NULL (constructed, not held) and the
\* thread that holds it.
DESTROYED == 0 - 4    \* after pthread_mutex_destroy()

Threads == 1..NumThreads
Nodes   == 1..MaxNodes
Values  == 1..MaxValue
Indices == 0..MaxIndex
Natives == 1..MaxNatives
Ops     == {"add", "remove", "get", "update", "length"}

VARIABLES
  head,        \* LinkedList._head
  item_size,   \* LinkedList._item_size
  copy,        \* LinkedList._copy
  dealloc,     \* LinkedList._dealloc
  lock,        \* LinkedList._lock: NULL when free, the thread that holds it,
               \* UNSET before it was constructed, DESTROYED afterwards
  node_next,   \* ListItem._next of every node
  node_value,  \* content of the buffer ListItem._value points to, NULL if none
  mem,         \* allocation state of every node: "unalloc", "live", "freed"
  vbuf,        \* allocation state of every node's value buffer
  pc,          \* position of every thread inside its current call
  call,        \* arguments of the current call of every thread
  item,        \* local item / to_be_freed of every thread
  current,     \* local current of linkedlist_add of every thread
  status,      \* local status / return value of every thread
  out,         \* content of the caller's output buffer of every thread
  budget,      \* calls every thread may still issue
  nadds,       \* add calls that returned LINKEDLIST_SUCCESS
  nremoves,    \* remove calls that returned LINKEDLIST_SUCCESS
  fault,       \* TRUE once freed or unallocated memory was accessed or freed
  S,           \* abstract sequence run side by side with the list
  exp,         \* result the abstract sequence gives to the current call
  pre,         \* what get and length answered when the current call was issued
  log,         \* what the current call of every thread did so far, in order
  orphans,     \* nodes linkedlist_initialize() made unreachable without freeing
  node_data,   \* the memory that holds the bytes of the value of every node
  out_data,    \* the memory that holds the bytes of the copy linkedlist_get()
               \* made for every thread
  mutex,       \* the handle of the lock layer (linkedlist_mutex_t): NULL when
               \* empty, else the native lock it points to
  native,      \* state of every native lock: "unalloc", "raw", "ready",
               \* "locked", "freed", and the thread that holds it
  raced,       \* TRUE once linkedlist_destroy() ran next to another call
  vsize        \* the size malloc() was asked for the value buffer of every node

vars == <<head, item_size, copy, dealloc, lock, node_next, node_value, mem,
          vbuf, pc, call, item, current, status, out, budget, nadds, nremoves,
          fault, S, exp, pre, log, orphans, node_data, out_data, mutex, native,
          raced, vsize>>

listvars == <<head, item_size, copy, dealloc>>
heapvars == <<node_next, node_value, mem, vbuf>>
counters == <<budget, nadds, nremoves>>
datavars == <<node_data, out_data, vsize>>
mutexvars == <<mutex, native>>

(***************************************************************************)
(* Pure functions of the chain.                                            *)
(***************************************************************************)

\* The nodes met from p by following _next, in order, at most fuel of them.
RECURSIVE Path(_, _, _)
Path(nx, p, fuel) ==
  IF p = NULL \/ fuel = 0 THEN <<>> ELSE <<p>> \o Path(nx, nx[p], fuel - 1)

\* for (_ = 0; _ < k; _++) { if (p == NULL) break; p = p->_next; }
RECURSIVE Walk(_, _, _)
Walk(nx, p, k) ==
  IF k = 0 \/ p = NULL THEN p ELSE Walk(nx, nx[p], k - 1)

\* The nodes whose _next the loop of Walk reads.
RECURSIVE WalkReads(_, _, _)
WalkReads(nx, p, k) ==
  IF k = 0 \/ p = NULL THEN {} ELSE {p} \cup WalkReads(nx, nx[p], k - 1)

\* current = p; while (current->_next != NULL) current = current->_next;
\* NONE stands for a loop that does not end (a cyclic chain).
RECURSIVE TailOf(_, _, _)
TailOf(nx, p, fuel) ==
  IF nx[p] = NULL THEN p
  ELSE IF fuel = 0 THEN NONE ELSE TailOf(nx, nx[p], fuel - 1)

\* n = 0; while (current != NULL) { n += 1; current = current->_next; }
RECURSIVE Count(_, _, _)
Count(nx, p, fuel) ==
  IF p = NULL THEN 0
  ELSE IF fuel = 0 THEN NONE
  ELSE LET rest == Count(nx, nx[p], fuel - 1)
       IN  IF rest = NONE THEN NONE ELSE rest + 1

Fuel == MaxNodes + 1

\* One entry of log: what was done, and to which node (NULL when to none).
Event(e, n) == [ev |-> e, node |-> n]

SeqToSet(s) == {s[i] : i \in 1..Len(s)}

\* A copy hook applied to a source value: what it writes to the destination.
\* memcpy copies the item_size bytes of the value, bytebuffer_copy duplicates
\* the nested buffer, so that the destination compares equal to the source.
CopyValue(fn, src) ==
  CASE fn = memcpy          -> src
    [] fn = bytebuffer_copy -> src
    [] OTHER                -> UNSET

\* The memory of node n's own: its value buffer and what a copy hook
\* allocates for it; the memory of the value a thread passes to
\* linkedlist_add() and linkedlist_update(); the memory of the buffer a
\* thread passes to linkedlist_get().
OwnData(n)    == n
ValueData(t)  == MaxNodes + t
BufferData(t) == MaxNodes + NumThreads + t

\* The bug of a bytebuffer_copy() that copies the data pointer and not the
\* data (dest_buffer->data = src_buffer->data).
CopyData_SharesData(fn, own, src) ==
  CASE fn = memcpy          -> own
    [] fn = bytebuffer_copy -> src
    [] OTHER                -> NULL

\* A copy hook applied to a destination whose own memory is own and a source
\* whose bytes are held in src: the memory that holds the bytes of the
\* destination afterwards.  memcpy copies the bytes of a flat item into the
\* destination, bytebuffer_copy into a buffer it allocates for it.
CopyData(fn, own, src) ==
  CASE fn = memcpy          -> own
    [] fn = bytebuffer_copy -> own
    [] OTHER                -> NULL

\* The bug of a check that does not look at _copy, the member that
\* linkedlist_destroy() clears.
linkedlist_initialized_IgnoresCopy(l, size, cp) ==
  (l # NULL) /\ (size # 0)

\* linkedlist_initialized()
linkedlist_initialized(l, size, cp) ==
  (l # NULL) /\ (size # 0) /\ (cp # NULL)

\* linkedlist_get() with the bug of a search loop that runs once too often
\* (_ <= index).
linkedlist_get_result_LoopOnceMore(h, nx, nv, cp, index) ==
  LET found == Walk(nx, h, index + 1)
  IN  IF found = NULL
      THEN [status |-> ERANGE, out |-> UNSET]
      ELSE [status |-> LINKEDLIST_SUCCESS, out |-> CopyValue(cp, nv[found])]

\* The search and copy of linkedlist_get() as a function of the list.
linkedlist_get_result(h, nx, nv, cp, index) ==
  LET found == Walk(nx, h, index)
  IN  IF found = NULL
      THEN [status |-> ERANGE, out |-> UNSET]
      ELSE [status |-> LINKEDLIST_SUCCESS, out |-> CopyValue(cp, nv[found])]

\* linkedlist_length() with the bug of a loop that counts the _next
\* references instead of the items (while (current->_next != NULL)).
linkedlist_length_result_CountsLinks(h, nx) ==
  [status |-> LINKEDLIST_SUCCESS,
   out |-> IF h = NULL THEN 0 ELSE Count(nx, nx[h], Fuel)]

\* The counting loop of linkedlist_length() as a function of the list.
linkedlist_length_result(h, nx) ==
  [status |-> LINKEDLIST_SUCCESS, out |-> Count(nx, h, Fuel)]

(***************************************************************************)
(* The abstract sequence: what a call answers on a sequence s of values,   *)
(* and the sequence it leaves.                                             *)
(***************************************************************************)
RemoveAt(s, i) == [j \in 1..(Len(s) - 1) |-> IF j < i THEN s[j] ELSE s[j + 1]]

ValidArgs(c) ==
  /\ c.list # NULL
  /\ c.op \in {"add", "update"} => c.value # NULL
  /\ c.op \in {"get", "length"} => c.buffer # NULL

AbsResult(s, c) ==
  IF ~ValidArgs(c) THEN [status |-> EINVAL, out |-> UNSET]
  ELSE CASE c.op = "add"    -> [status |-> LINKEDLIST_SUCCESS, out |-> UNSET]
         [] c.op = "length" -> [status |-> LINKEDLIST_SUCCESS, out |-> Len(s)]
         [] c.op = "get"    ->
              IF c.index < Len(s)
              THEN [status |-> LINKEDLIST_SUCCESS, out |-> s[c.index + 1]]
              ELSE [status |-> ERANGE, out |-> UNSET]
         [] OTHER ->
              IF c.index < Len(s)
              THEN [status |-> LINKEDLIST_SUCCESS, out |-> UNSET]
              ELSE [status |-> ERANGE, out |-> UNSET]

\* The sequence after a call that returned st.
AbsNext(s, c, st) ==
  IF st # LINKEDLIST_SUCCESS THEN s
  ELSE CASE c.op = "add"    -> Append(s, c.value)
         [] c.op = "remove" ->
              IF c.index < Len(s) THEN RemoveAt(s, c.index + 1) ELSE s
         [] c.op = "update" ->
              IF c.index < Len(s) THEN [s EXCEPT ![c.index + 1] = c.value] ELSE s
         [] OTHER -> s

(***************************************************************************)
(* Calls.                                                                  *)
(***************************************************************************)
NoCall == [op |-> "none", list |-> NULL, index |-> 0, value |-> NULL, buffer |-> NULL]

\* The calls with usable arguments, and the calls with a NULL list, a NULL
\* value or a NULL buffer.
GoodCalls ==
  {[op |-> "add", list |-> LIST, index |-> 0, value |-> v, buffer |-> NULL] :
      v \in Values}
  \cup
  {[op |-> "remove", list |-> LIST, index |-> i, value |-> NULL, buffer |-> NULL] :
      i \in Indices}
  \cup
  {[op |-> "get", list |-> LIST, index |-> i, value |-> NULL, buffer |-> BUF] :
      i \in Indices}
  \cup
  {[op |-> "update", list |-> LIST, index |-> i, value |-> v, buffer |-> NULL] :
      i \in Indices, v \in Values}
  \cup
  {[op |-> "length", list |-> LIST, index |-> 0, value |-> NULL, buffer |-> BUF]}

BadCalls ==
  {[op |-> o, list |-> NULL, index |-> 0, value |-> 1,
    buffer |-> BUF] : o \in Ops}
  \cup
  {[op |-> o, list |-> LIST, index |-> i, value |-> NULL, buffer |-> NULL] :
      o \in {"add", "update", "get", "length"}, i \in {0, MaxIndex}}

Calls == GoodCalls \cup BadCalls

\* The nodes reachable from head, in chain order.
Chain == Path(node_next, head, Fuel)

\* The values of the nodes reachable from head, in chain order.
ChainValues == [i \in 1..Len(Chain) |-> node_value[Chain[i]]]

\* What length and get(i), for every index a list can have and the one after,
\* answer on the list as it is, and the chain they answer from.
Observed ==
  [len |-> linkedlist_length_result(head, node_next).out,
   get |-> [i \in 0..MaxNodes |->
              linkedlist_get_result(head, node_next, node_value, copy, i)],
   chain |-> Chain,
   list |-> [head |-> head, item_size |-> item_size, copy |-> copy,
             dealloc |-> dealloc, lock |-> lock],
   heap |-> [next |-> node_next, value |-> node_value, mem |-> mem,
             vbuf |-> vbuf]]

\* No thread but t has a call in flight or can issue one.
Alone(t) == \A u \in Threads \ {t} : pc[u] = "idle" /\ budget[u] = 0

\* The hooks a list is initialized with: the defaults (tests "default") or
\* the deep-copying pair of the ByteBuffer example (tests "custom").
HookArgs == {<<NULL, NULL>>, <<bytebuffer_copy, bytebuffer_dealloc>>}

NoResult == [status |-> NONE, out |-> NONE]
ObsIndices == 0..MaxNodes
NoObs    == [len |-> NONE, get |-> [i \in ObsIndices |-> NoResult], chain |-> <<>>,
             list |-> <<>>, heap |-> <<>>]

\* The bug of storing the copy argument as it is, NULL when none was given.
linkedlist_initialize_KeepsNullCopy(size, cp, de) ==
  [head |-> NULL, item_size |-> size, copy |-> cp, dealloc |-> de]

\* The bug of a linkedlist_initialize() that does not set list->_head.
linkedlist_initialize_KeepsHead(size, cp, de) ==
  [head |-> head, item_size |-> size,
   copy |-> IF cp # NULL THEN cp ELSE memcpy, dealloc |-> de]

\* linkedlist_initialize(list, size, cp, de) on success: the fields it sets.
linkedlist_initialize(size, cp, de) ==
  [head |-> NULL, item_size |-> size,
   copy |-> IF cp # NULL THEN cp ELSE memcpy, dealloc |-> de]

(***************************************************************************)
(* Initial states: the list after a successful linkedlist_initialize(),    *)
(* no node allocated, no call in flight.                                   *)
(***************************************************************************)
InitList ==
  \E h \in HookArgs :
    LET l == linkedlist_initialize(ItemSize, h[1], h[2])
    IN  /\ head = l.head
        /\ item_size = l.item_size
        /\ copy = l.copy
        /\ dealloc = l.dealloc
        /\ lock = NULL

InitRest ==
  /\ node_next = [n \in Nodes |-> NULL]
  /\ node_value = [n \in Nodes |-> NULL]
  /\ mem = [n \in Nodes |-> "unalloc"]
  /\ vbuf = [n \in Nodes |-> "unalloc"]
  /\ pc = [t \in Threads |-> "idle"]
  /\ call = [t \in Threads |-> NoCall]
  /\ item = [t \in Threads |-> NULL]
  /\ current = [t \in Threads |-> NULL]
  /\ status = [t \in Threads |-> NONE]
  /\ out = [t \in Threads |-> UNSET]
  /\ fault = FALSE
  /\ nadds = 0
  /\ nremoves = 0
  /\ S = <<>>
  /\ exp = [t \in Threads |-> NoResult]
  /\ pre = NoObs
  /\ log = [t \in Threads |-> <<>>]
  /\ orphans = {}
  /\ node_data = [n \in Nodes |-> NULL]
  /\ out_data = [t \in Threads |-> NULL]
  /\ mutex = NULL
  /\ native = [o \in Natives |->
                [st |-> "unalloc", owner |-> NULL, destroys |-> 0, frees |-> 0]]
  /\ raced = FALSE
  /\ vsize = [n \in Nodes |-> 0]

\* Several threads, MaxCalls calls each.
Init ==
  /\ InitList
  /\ InitRest
  /\ budget = [t \in Threads |-> MaxCalls]

\* One thread, SeqCalls calls.
SeqInit ==
  /\ InitList
  /\ InitRest
  /\ budget = [t \in Threads |-> IF t = 1 THEN SeqCalls ELSE 0]

(***************************************************************************)
(* Steps shared by the library functions.                                  *)
(***************************************************************************)

\* A thread calls a library function with arguments c.
Call(t) ==
  /\ pc[t] = "idle"
  /\ budget[t] > 0
  /\ \E c \in Calls : call' = [call EXCEPT ![t] = c]
  /\ budget' = [budget EXCEPT ![t] = @ - 1]
  /\ pc' = [pc EXCEPT ![t] = "entry"]
  /\ pre' = IF Alone(t) THEN Observed ELSE NoObs
  /\ UNCHANGED <<listvars, heapvars, lock, item, current, status, out, fault,
                 nadds, nremoves, S, exp>>
  /\ UNCHANGED <<log, orphans>>
  /\ UNCHANGED datavars
  /\ UNCHANGED <<mutexvars, raced>>

\* The function returns before it took the lock, with status st.
ReturnEarly(t, st) ==
  /\ pc' = [pc EXCEPT ![t] = "ret"]
  /\ status' = [status EXCEPT ![t] = st]
  /\ exp' = [exp EXCEPT ![t] =
               IF st = ENOMEM THEN [status |-> ENOMEM, out |-> UNSET]
               ELSE AbsResult(S, call[t])]

\* The node malloc hands out next, NULL when the memory is used up.
malloc(m) ==
  IF \E n \in Nodes : m[n] = "unalloc"
  THEN CHOOSE n \in Nodes :
         m[n] = "unalloc" /\ \A k \in Nodes : k < n => m[k] # "unalloc"
  ELSE NULL

\* A lock that does not wait for its holder to release it.
pthread_mutex_lock_NoWait(t) ==
  /\ pc[t] = "lock"
  /\ lock' = t
  /\ pc' = [pc EXCEPT ![t] =
              CASE call[t].op = "add"    -> "add_find"
                [] call[t].op = "remove" -> "remove_find"
                [] call[t].op = "get"    -> "get_copy"
                [] call[t].op = "update" -> "update_find"
                [] OTHER                 -> "length_count"]
  /\ UNCHANGED <<listvars, heapvars, call, item, current, status, out, counters,
                 fault, S, exp, pre>>
  /\ log' = [log EXCEPT ![t] = Append(@, Event("lock", NULL))]
  /\ UNCHANGED orphans
  /\ UNCHANGED datavars
  /\ UNCHANGED <<mutexvars, raced>>

\* pthread_mutex_lock(&list->_lock): blocks while another thread holds it.
pthread_mutex_lock(t) ==
  /\ pc[t] = "lock"
  /\ lock = NULL
  /\ lock' = t
  /\ pc' = [pc EXCEPT ![t] =
              CASE call[t].op = "add"    -> "add_find"
                [] call[t].op = "remove" -> "remove_find"
                [] call[t].op = "get"    -> "get_copy"
                [] call[t].op = "update" -> "update_find"
                [] OTHER                 -> "length_count"]
  /\ UNCHANGED <<listvars, heapvars, call, item, current, status, out, counters,
                 fault, S, exp, pre>>
  /\ log' = [log EXCEPT ![t] = Append(@, Event("lock", NULL))]
  /\ UNCHANGED orphans
  /\ UNCHANGED datavars
  /\ UNCHANGED <<mutexvars, raced>>

\* What add does with the item it prepared when it cannot take the lock:
\* dealloc hook, free(item->_value), free(item).
linkedlist_add_cleanup(n, de) ==
  (IF de # NULL THEN <<Event("dealloc", n)>> ELSE <<>>)
  \o <<Event("free_value", n), Event("free_item", n)>>

\* The bug of returning the status of the lock without freeing the item.
LockFailed_LeaksItem(t, st) ==
  /\ status' = [status EXCEPT ![t] = st]
  /\ exp' = [exp EXCEPT ![t] = [status |-> st, out |-> UNSET]]
  /\ pc' = [pc EXCEPT ![t] = "ret"]
  /\ UNCHANGED <<heapvars, log>>

\* if (status != 0) of every function: add frees the item it prepared, every
\* function returns the status of the lock.
LockFailed(t, st) ==
  /\ status' = [status EXCEPT ![t] = st]
  /\ exp' = [exp EXCEPT ![t] = [status |-> st, out |-> UNSET]]
  /\ pc' = [pc EXCEPT ![t] = "ret"]
  /\ IF call[t].op = "add"
     THEN LET n == item[t]
          IN  /\ node_value' = IF dealloc # NULL
                               THEN [node_value EXCEPT ![n] = RELEASED]
                               ELSE node_value
              /\ vbuf' = [vbuf EXCEPT ![n] = "freed"]
              /\ mem' = [mem EXCEPT ![n] = "freed"]
              /\ log' = [log EXCEPT ![t] = @ \o linkedlist_add_cleanup(n, dealloc)]
              /\ UNCHANGED node_next
     ELSE UNCHANGED <<heapvars, log>>

\* pthread_mutex_lock(&list->_lock) returns a status other than 0 and the
\* lock is not taken.
pthread_mutex_lock_fails(t) ==
  /\ pc[t] = "lock"
  /\ lock \in {NULL} \cup Threads
  /\ LockFailed(t, EAGAIN)
  /\ UNCHANGED <<listvars, lock, call, item, current, out, counters, fault, S,
                 pre, orphans>>
  /\ UNCHANGED datavars
  /\ UNCHANGED <<mutexvars, raced>>

\* pthread_mutex_lock(&list->_lock) on a mutex pthread_mutex_destroy() was
\* called on: the behaviour is undefined, the call fails or takes the mutex.
pthread_mutex_lock_destroyed(t) ==
  /\ pc[t] = "lock"
  /\ lock = DESTROYED
  /\ fault' = TRUE
  /\ \/ /\ LockFailed(t, EINVAL)
        /\ UNCHANGED lock
     \/ /\ lock' = t
        /\ pc' = [pc EXCEPT ![t] =
                    CASE call[t].op = "add"    -> "add_find"
                      [] call[t].op = "remove" -> "remove_find"
                      [] call[t].op = "get"    -> "get_copy"
                      [] call[t].op = "update" -> "update_find"
                      [] OTHER                 -> "length_count"]
        /\ log' = [log EXCEPT ![t] = Append(@, Event("lock", NULL))]
        /\ UNCHANGED <<heapvars, status, exp>>
  /\ UNCHANGED <<listvars, call, item, current, out, counters, S, pre, orphans>>
  /\ UNCHANGED datavars
  /\ UNCHANGED <<mutexvars, raced>>

\* The bug of returning ERANGE without releasing the lock.
pthread_mutex_unlock_NotOnERANGE(t) ==
  /\ pc[t] = "unlock"
  /\ lock' = IF status[t] = ERANGE THEN lock ELSE NULL
  /\ fault' = (fault \/ lock # t)
  /\ pc' = [pc EXCEPT ![t] =
              IF call[t].op = "remove" THEN "remove_free" ELSE "ret"]
  /\ UNCHANGED <<listvars, heapvars, call, item, current, status, out, counters,
                 S, exp, pre>>
  /\ log' = [log EXCEPT ![t] = Append(@, Event("unlock", NULL))]
  /\ UNCHANGED orphans
  /\ UNCHANGED datavars
  /\ UNCHANGED <<mutexvars, raced>>

\* pthread_mutex_unlock(&list->_lock)
pthread_mutex_unlock(t) ==
  /\ pc[t] = "unlock"
  /\ lock' = NULL
  /\ fault' = (fault \/ lock # t)
  /\ pc' = [pc EXCEPT ![t] =
              IF call[t].op = "remove" THEN "remove_free" ELSE "ret"]
  /\ UNCHANGED <<listvars, heapvars, call, item, current, status, out, counters,
                 S, exp, pre>>
  /\ log' = [log EXCEPT ![t] = Append(@, Event("unlock", NULL))]
  /\ UNCHANGED orphans
  /\ UNCHANGED datavars
  /\ UNCHANGED <<mutexvars, raced>>

\* The function returns to its caller; its locals die.
Return(t) ==
  /\ pc[t] = "ret"
  /\ pc' = [pc EXCEPT ![t] = "idle"]
  /\ call' = [call EXCEPT ![t] = NoCall]
  /\ item' = [item EXCEPT ![t] = NULL]
  /\ current' = [current EXCEPT ![t] = NULL]
  /\ status' = [status EXCEPT ![t] = NONE]
  /\ out' = [out EXCEPT ![t] = UNSET]
  /\ exp' = [exp EXCEPT ![t] = NoResult]
  /\ pre' = NoObs
  /\ nadds' = IF call[t].op = "add" /\ status[t] = LINKEDLIST_SUCCESS
              THEN nadds + 1 ELSE nadds
  /\ nremoves' = IF call[t].op = "remove" /\ status[t] = LINKEDLIST_SUCCESS
                 THEN nremoves + 1 ELSE nremoves
  /\ UNCHANGED <<listvars, heapvars, lock, budget, fault, S>>
  /\ log' = [log EXCEPT ![t] = <<>>]
  /\ out_data' = [out_data EXCEPT ![t] = NULL]
  /\ UNCHANGED <<orphans, node_data, vsize>>
  /\ UNCHANGED <<mutexvars, raced>>

\* TRUE when one of the nodes of ns is not a live allocation.
Dangling(ns) == \E n \in ns : mem[n] # "live"

(***************************************************************************)
(* linkedlist_add()                                                        *)
(***************************************************************************)

\* Argument checks, allocation of the item and its value, copy of the value.
linkedlist_add_entry(t) ==
  /\ pc[t] = "entry" /\ call[t].op = "add"
  /\ IF ~linkedlist_initialized(call[t].list, item_size, copy)
        \/ call[t].value = NULL
     THEN /\ ReturnEarly(t, EINVAL)
          /\ UNCHANGED <<heapvars, item, log, node_data, vsize>>
     ELSE \/ /\ ReturnEarly(t, ENOMEM)          \* malloc(sizeof(ListItem)) fails
             /\ UNCHANGED <<heapvars, item, log, node_data, vsize>>
          \/ /\ malloc(mem) # NULL              \* malloc(list->_item_size) fails
             /\ mem' = [mem EXCEPT ![malloc(mem)] = "freed"]
             /\ log' = [log EXCEPT ![t] = Append(@, Event("free_item", malloc(mem)))]
             /\ ReturnEarly(t, ENOMEM)
             /\ UNCHANGED <<node_next, node_value, vbuf, item, node_data,
                            vsize>>
          \/ /\ malloc(mem) # NULL
             /\ LET n == malloc(mem)
                IN  /\ mem' = [mem EXCEPT ![n] = "live"]
                    /\ vbuf' = [vbuf EXCEPT ![n] = "live"]
                    /\ vsize' = [vsize EXCEPT ![n] = item_size]
                    /\ node_next' = [node_next EXCEPT ![n] = NULL]
                    /\ node_value' = [node_value EXCEPT ![n] =
                                        CopyValue(copy, call[t].value)]
                    /\ item' = [item EXCEPT ![t] = n]
                    /\ log' = [log EXCEPT ![t] = Append(@, Event("copy", n))]
                    /\ node_data' = [node_data EXCEPT ![n] =
                                       CopyData(copy, OwnData(n), ValueData(t))]
             /\ pc' = [pc EXCEPT ![t] = "lock"]
             /\ UNCHANGED <<status, exp>>
  /\ UNCHANGED <<listvars, lock, call, current, out, counters, fault, S, pre,
                 orphans, out_data>>
  /\ UNCHANGED <<mutexvars, raced>>

\* The bug of appending behind the first item instead of the last one.
linkedlist_add_find_NoLoop(t) ==
  /\ pc[t] = "add_find"
  /\ current' = [current EXCEPT ![t] = head]
  /\ fault' = fault
  /\ pc' = [pc EXCEPT ![t] = "add_link"]
  /\ UNCHANGED <<listvars, heapvars, lock, call, item, status, out, counters, S,
                 exp, pre>>
  /\ UNCHANGED <<log, orphans>>
  /\ UNCHANGED datavars
  /\ UNCHANGED <<mutexvars, raced>>

\* if (list->_head == NULL) ... else { find the last item }
linkedlist_add_find(t) ==
  /\ pc[t] = "add_find"
  /\ IF head = NULL
     THEN /\ current' = [current EXCEPT ![t] = NULL]
          /\ UNCHANGED fault
     ELSE /\ TailOf(node_next, head, Fuel) # NONE
          /\ current' = [current EXCEPT ![t] = TailOf(node_next, head, Fuel)]
          /\ fault' = (fault \/ Dangling(SeqToSet(Path(node_next, head, Fuel))))
  /\ pc' = [pc EXCEPT ![t] = "add_link"]
  /\ UNCHANGED <<listvars, heapvars, lock, call, item, status, out, counters, S,
                 exp, pre>>
  /\ UNCHANGED <<log, orphans>>
  /\ UNCHANGED datavars
  /\ UNCHANGED <<mutexvars, raced>>

\* The bug of an add that links the new item before the head.
linkedlist_add_link_Prepends(t) ==
  /\ pc[t] = "add_link"
  /\ head' = item[t]
  /\ node_next' = [node_next EXCEPT ![item[t]] = head]
  /\ UNCHANGED fault
  /\ status' = [status EXCEPT ![t] = LINKEDLIST_SUCCESS]
  /\ exp' = [exp EXCEPT ![t] = AbsResult(S, call[t])]
  /\ S' = AbsNext(S, call[t], LINKEDLIST_SUCCESS)
  /\ pc' = [pc EXCEPT ![t] = "unlock"]
  /\ UNCHANGED <<item_size, copy, dealloc, node_value, mem, vbuf, lock, call,
                 item, current, out, counters, pre>>
  /\ log' = [log EXCEPT ![t] = Append(@, Event("link", item[t]))]
  /\ UNCHANGED orphans
  /\ UNCHANGED datavars
  /\ UNCHANGED <<mutexvars, raced>>

\* list->_head = item;  or  current->_next = item;
linkedlist_add_link(t) ==
  /\ pc[t] = "add_link"
  /\ IF current[t] = NULL
     THEN /\ head' = item[t]
          /\ UNCHANGED <<node_next, fault>>
     ELSE /\ node_next' = [node_next EXCEPT ![current[t]] = item[t]]
          /\ fault' = (fault \/ Dangling({current[t]}))
          /\ UNCHANGED head
  /\ status' = [status EXCEPT ![t] = LINKEDLIST_SUCCESS]
  /\ exp' = [exp EXCEPT ![t] = AbsResult(S, call[t])]
  /\ S' = AbsNext(S, call[t], LINKEDLIST_SUCCESS)
  /\ pc' = [pc EXCEPT ![t] = "unlock"]
  /\ UNCHANGED <<item_size, copy, dealloc, node_value, mem, vbuf, lock, call,
                 item, current, out, counters, pre>>
  /\ log' = [log EXCEPT ![t] = Append(@, Event("link", item[t]))]
  /\ UNCHANGED orphans
  /\ UNCHANGED datavars
  /\ UNCHANGED <<mutexvars, raced>>

(***************************************************************************)
(* linkedlist_remove()                                                     *)
(***************************************************************************)

\* Check that the list is initialized.
linkedlist_remove_entry(t) ==
  /\ pc[t] = "entry" /\ call[t].op = "remove"
  /\ IF ~linkedlist_initialized(call[t].list, item_size, copy)
     THEN ReturnEarly(t, EINVAL)
     ELSE /\ pc' = [pc EXCEPT ![t] = "lock"]
          /\ UNCHANGED <<status, exp>>
  /\ UNCHANGED <<listvars, heapvars, lock, call, item, current, out, counters,
                 fault, S, pre>>
  /\ UNCHANGED <<log, orphans>>
  /\ UNCHANGED datavars
  /\ UNCHANGED <<mutexvars, raced>>

\* The bug of a search that stops at the item to remove instead of the one in
\* front of it (_ < index).
linkedlist_remove_search_OneTooFar(h, nx, index) == Walk(nx, h, index)

\* The item in front of the one to remove: the loop of linkedlist_remove().
linkedlist_remove_search(h, nx, index) == Walk(nx, h, index - 1)

\* The bug of a to_be_freed that starts as list->_head instead of NULL: a
\* search that fails still frees the first item.
linkedlist_remove_find_FreesHead(t) ==
  /\ pc[t] = "remove_find"
  /\ IF head = NULL
     THEN /\ status' = [status EXCEPT ![t] = ERANGE]
          /\ UNCHANGED <<current, fault>>
     ELSE IF call[t].index = 0
     THEN /\ status' = [status EXCEPT ![t] = LINKEDLIST_SUCCESS]
          /\ UNCHANGED <<current, fault>>
     ELSE LET cur == linkedlist_remove_search(head, node_next, call[t].index)
          IN  /\ current' = [current EXCEPT ![t] = cur]
              /\ fault' = (fault \/ Dangling(
                              WalkReads(node_next, head, call[t].index - 1)
                              \cup (IF cur = NULL THEN {} ELSE {cur})))
              /\ status' = [status EXCEPT ![t] =
                              IF cur = NULL \/ node_next[cur] = NULL
                              THEN ERANGE ELSE LINKEDLIST_SUCCESS]
  /\ IF status'[t] = LINKEDLIST_SUCCESS
     THEN /\ pc' = [pc EXCEPT ![t] = "remove_unlink"]
          /\ UNCHANGED <<exp, item>>
     ELSE /\ pc' = [pc EXCEPT ![t] = "unlock"]
          /\ item' = [item EXCEPT ![t] = head]
          /\ exp' = [exp EXCEPT ![t] = AbsResult(S, call[t])]
  /\ UNCHANGED <<listvars, heapvars, lock, call, out, counters, S, pre>>
  /\ UNCHANGED <<log, orphans>>
  /\ UNCHANGED datavars
  /\ UNCHANGED <<mutexvars, raced>>

\* The search under the lock: empty list, first item, or the item in front
\* of the one to remove; decides the status.
linkedlist_remove_find(t) ==
  /\ pc[t] = "remove_find"
  /\ IF head = NULL
     THEN /\ status' = [status EXCEPT ![t] = ERANGE]
          /\ UNCHANGED <<current, fault>>
     ELSE IF call[t].index = 0
     THEN /\ status' = [status EXCEPT ![t] = LINKEDLIST_SUCCESS]
          /\ UNCHANGED <<current, fault>>
     ELSE LET cur == linkedlist_remove_search(head, node_next, call[t].index)
          IN  /\ current' = [current EXCEPT ![t] = cur]
              /\ fault' = (fault \/ Dangling(
                              WalkReads(node_next, head, call[t].index - 1)
                              \cup (IF cur = NULL THEN {} ELSE {cur})))
              /\ status' = [status EXCEPT ![t] =
                              IF cur = NULL \/ node_next[cur] = NULL
                              THEN ERANGE ELSE LINKEDLIST_SUCCESS]
  /\ IF status'[t] = LINKEDLIST_SUCCESS
     THEN /\ pc' = [pc EXCEPT ![t] = "remove_unlink"]
          /\ UNCHANGED exp
     ELSE /\ pc' = [pc EXCEPT ![t] = "unlock"]
          /\ exp' = [exp EXCEPT ![t] = AbsResult(S, call[t])]
  /\ UNCHANGED <<listvars, heapvars, lock, call, item, out, counters, S, pre>>
  /\ UNCHANGED <<log, orphans>>
  /\ UNCHANGED datavars
  /\ UNCHANGED <<mutexvars, raced>>

\* The bug of freeing the item without taking it out of the chain.
linkedlist_remove_unlink_KeepsLink(t) ==
  /\ pc[t] = "remove_unlink"
  /\ item' = [item EXCEPT ![t] =
                IF call[t].index = 0 THEN head ELSE node_next[current[t]]]
  /\ exp' = [exp EXCEPT ![t] = AbsResult(S, call[t])]
  /\ S' = AbsNext(S, call[t], status[t])
  /\ pc' = [pc EXCEPT ![t] = "unlock"]
  /\ UNCHANGED <<listvars, heapvars, lock, call, current, status, out, counters,
                 fault, pre>>
  /\ log' = [log EXCEPT ![t] = Append(@, Event("unlink", item'[t]))]
  /\ UNCHANGED orphans
  /\ UNCHANGED datavars
  /\ UNCHANGED <<mutexvars, raced>>

\* The bug of freeing the unlinked node before the lock is released.
linkedlist_remove_unlink_FreesLocked(t) ==
  /\ pc[t] = "remove_unlink"
  /\ IF call[t].index = 0
     THEN /\ item' = [item EXCEPT ![t] = head]
          /\ head' = node_next[head]
          /\ fault' = (fault \/ Dangling({head}))
          /\ UNCHANGED node_next
     ELSE LET cur == current[t]
          IN  /\ item' = [item EXCEPT ![t] = node_next[cur]]
              /\ node_next' = [node_next EXCEPT ![cur] = node_next[node_next[cur]]]
              /\ fault' = (fault \/ Dangling({cur, node_next[cur]}))
              /\ UNCHANGED head
  /\ exp' = [exp EXCEPT ![t] = AbsResult(S, call[t])]
  /\ S' = AbsNext(S, call[t], status[t])
  /\ pc' = [pc EXCEPT ![t] = "remove_free"]
  /\ UNCHANGED <<item_size, copy, dealloc, node_value, mem, vbuf, lock, call,
                 current, status, out, counters, pre>>
  /\ log' = [log EXCEPT ![t] = Append(@, Event("unlink", item'[t]))]
  /\ UNCHANGED orphans
  /\ UNCHANGED datavars
  /\ UNCHANGED <<mutexvars, raced>>

\* to_be_freed = list->_head; list->_head = list->_head->_next;  or
\* to_be_freed = current->_next; current->_next = current->_next->_next;
linkedlist_remove_unlink(t) ==
  /\ pc[t] = "remove_unlink"
  /\ IF call[t].index = 0
     THEN /\ item' = [item EXCEPT ![t] = head]
          /\ head' = node_next[head]
          /\ fault' = (fault \/ Dangling({head}))
          /\ UNCHANGED node_next
     ELSE LET cur == current[t]
          IN  /\ item' = [item EXCEPT ![t] = node_next[cur]]
              /\ node_next' = [node_next EXCEPT ![cur] = node_next[node_next[cur]]]
              /\ fault' = (fault \/ Dangling({cur, node_next[cur]}))
              /\ UNCHANGED head
  /\ exp' = [exp EXCEPT ![t] = AbsResult(S, call[t])]
  /\ S' = AbsNext(S, call[t], status[t])
  /\ pc' = [pc EXCEPT ![t] = "unlock"]
  /\ UNCHANGED <<item_size, copy, dealloc, node_value, mem, vbuf, lock, call,
                 current, status, out, counters, pre>>
  /\ log' = [log EXCEPT ![t] = Append(@, Event("unlink", item'[t]))]
  /\ UNCHANGED orphans
  /\ UNCHANGED datavars
  /\ UNCHANGED <<mutexvars, raced>>

\* After the unlock: if (to_be_freed != NULL) { if (to_be_freed->_value !=
\* NULL) { if (list->_dealloc != NULL) list->_dealloc(to_be_freed->_value);
linkedlist_remove_dealloc(t) ==
  /\ pc[t] = "remove_free"
  /\ IF item[t] = NULL
     THEN /\ pc' = [pc EXCEPT ![t] = "ret"]
          /\ UNCHANGED <<node_value, fault>>
     ELSE /\ pc' = [pc EXCEPT ![t] = "remove_free_value"]
          /\ IF node_value[item[t]] # NULL /\ dealloc # NULL
             THEN /\ node_value' = [node_value EXCEPT ![item[t]] = RELEASED]
                  /\ fault' = (fault \/ Dangling({item[t]})
                                     \/ vbuf[item[t]] # "live"
                                     \/ node_value[item[t]] = RELEASED)
             ELSE /\ fault' = (fault \/ Dangling({item[t]}))
                  /\ UNCHANGED node_value
  /\ UNCHANGED <<listvars, node_next, mem, vbuf, lock, call, item, current,
                 status, out, counters, S, exp, pre>>
  /\ log' = IF item[t] # NULL /\ node_value[item[t]] # NULL /\ dealloc # NULL
            THEN [log EXCEPT ![t] = Append(@, Event("dealloc", item[t]))]
            ELSE log
  /\ UNCHANGED orphans
  /\ UNCHANGED datavars
  /\ UNCHANGED <<mutexvars, raced>>

\* free(to_be_freed->_value); } to_be_freed->_value = NULL;
linkedlist_remove_free_value(t) ==
  /\ pc[t] = "remove_free_value"
  /\ IF node_value[item[t]] # NULL
     THEN /\ vbuf' = [vbuf EXCEPT ![item[t]] = "freed"]
          /\ fault' = (fault \/ Dangling({item[t]}) \/ vbuf[item[t]] # "live")
     ELSE /\ fault' = (fault \/ Dangling({item[t]}))
          /\ UNCHANGED vbuf
  /\ node_value' = [node_value EXCEPT ![item[t]] = NULL]
  /\ pc' = [pc EXCEPT ![t] = "remove_free_item"]
  /\ UNCHANGED <<listvars, node_next, mem, lock, call, item, current, status,
                 out, counters, S, exp, pre>>
  /\ log' = IF node_value[item[t]] # NULL
            THEN [log EXCEPT ![t] = Append(@, Event("free_value", item[t]))]
            ELSE log
  /\ UNCHANGED orphans
  /\ UNCHANGED datavars
  /\ UNCHANGED <<mutexvars, raced>>

\* free(to_be_freed); }
linkedlist_remove_free_item(t) ==
  /\ pc[t] = "remove_free_item"
  /\ mem' = [mem EXCEPT ![item[t]] = "freed"]
  /\ fault' = (fault \/ Dangling({item[t]}))
  /\ pc' = [pc EXCEPT ![t] = "ret"]
  /\ UNCHANGED <<listvars, node_next, node_value, vbuf, lock, call, item,
                 current, status, out, counters, S, exp, pre>>
  /\ log' = [log EXCEPT ![t] = Append(@, Event("free_item", item[t]))]
  /\ UNCHANGED orphans
  /\ UNCHANGED datavars
  /\ UNCHANGED <<mutexvars, raced>>

(***************************************************************************)
(* linkedlist_get()                                                        *)
(***************************************************************************)

\* The bug of a linkedlist_get() that does not check its buffer.
linkedlist_get_entry_NoBufferCheck(t) ==
  /\ pc[t] = "entry" /\ call[t].op = "get"
  /\ IF ~linkedlist_initialized(call[t].list, item_size, copy)
     THEN ReturnEarly(t, EINVAL)
     ELSE /\ pc' = [pc EXCEPT ![t] = "lock"]
          /\ UNCHANGED <<status, exp>>
  /\ UNCHANGED <<listvars, heapvars, lock, call, item, current, out, counters,
                 fault, S, pre>>
  /\ UNCHANGED <<log, orphans>>
  /\ UNCHANGED datavars
  /\ UNCHANGED <<mutexvars, raced>>

\* Check that the list is initialized and the buffer is not NULL.
linkedlist_get_entry(t) ==
  /\ pc[t] = "entry" /\ call[t].op = "get"
  /\ IF ~linkedlist_initialized(call[t].list, item_size, copy)
        \/ call[t].buffer = NULL
     THEN ReturnEarly(t, EINVAL)
     ELSE /\ pc' = [pc EXCEPT ![t] = "lock"]
          /\ UNCHANGED <<status, exp>>
  /\ UNCHANGED <<listvars, heapvars, lock, call, item, current, out, counters,
                 fault, S, pre>>
  /\ UNCHANGED <<log, orphans>>
  /\ UNCHANGED datavars
  /\ UNCHANGED <<mutexvars, raced>>

\* The bug of a get that walks with list->_head in the place of a local pointer.
linkedlist_get_copy_WalksHead(t) ==
  /\ pc[t] = "get_copy"
  /\ LET r == linkedlist_get_result(head, node_next, node_value, copy,
                                    call[t].index)
         found == Walk(node_next, head, call[t].index)
     IN  /\ status' = [status EXCEPT ![t] = r.status]
         /\ head' = found
         /\ out' = [out EXCEPT ![t] =
                      IF r.status = LINKEDLIST_SUCCESS THEN r.out ELSE @]
         /\ fault' = (fault \/ Dangling(
                         WalkReads(node_next, head, call[t].index)
                         \cup (IF found = NULL THEN {} ELSE {found}))
                            \/ (found # NULL /\ vbuf[found] # "live"))
  /\ exp' = [exp EXCEPT ![t] = AbsResult(S, call[t])]
  /\ pc' = [pc EXCEPT ![t] = "unlock"]
  /\ UNCHANGED <<item_size, copy, dealloc, heapvars, lock, call, item, current,
                 counters, S, pre>>
  /\ log' = IF Walk(node_next, head, call[t].index) # NULL
            THEN [log EXCEPT ![t] =
                    Append(@, Event("copy", Walk(node_next, head, call[t].index)))]
            ELSE log
  /\ out_data' = IF Walk(node_next, head, call[t].index) # NULL
                 THEN [out_data EXCEPT ![t] =
                         CopyData(copy, BufferData(t),
                                  node_data[Walk(node_next, head, call[t].index)])]
                 ELSE out_data
  /\ UNCHANGED <<orphans, node_data, vsize>>
  /\ UNCHANGED <<mutexvars, raced>>

\* Under the lock: search the item, copy its value to the buffer.
linkedlist_get_copy(t) ==
  /\ pc[t] = "get_copy"
  /\ LET r == linkedlist_get_result(head, node_next, node_value, copy,
                                    call[t].index)
         found == Walk(node_next, head, call[t].index)
     IN  /\ status' = [status EXCEPT ![t] = r.status]
         /\ out' = [out EXCEPT ![t] =
                      IF r.status = LINKEDLIST_SUCCESS THEN r.out ELSE @]
         /\ fault' = (fault \/ Dangling(
                         WalkReads(node_next, head, call[t].index)
                         \cup (IF found = NULL THEN {} ELSE {found}))
                            \/ (found # NULL /\ vbuf[found] # "live"))
  /\ exp' = [exp EXCEPT ![t] = AbsResult(S, call[t])]
  /\ pc' = [pc EXCEPT ![t] = "unlock"]
  /\ UNCHANGED <<listvars, heapvars, lock, call, item, current, counters, S, pre>>
  /\ log' = IF Walk(node_next, head, call[t].index) # NULL
            THEN [log EXCEPT ![t] =
                    Append(@, Event("copy", Walk(node_next, head, call[t].index)))]
            ELSE log
  /\ out_data' = IF Walk(node_next, head, call[t].index) # NULL
                 THEN [out_data EXCEPT ![t] =
                         CopyData(copy, BufferData(t),
                                  node_data[Walk(node_next, head, call[t].index)])]
                 ELSE out_data
  /\ UNCHANGED <<orphans, node_data, vsize>>
  /\ UNCHANGED <<mutexvars, raced>>

(***************************************************************************)
(* linkedlist_update()                                                     *)
(***************************************************************************)

\* Check that the list is initialized and the value is not NULL.
linkedlist_update_entry(t) ==
  /\ pc[t] = "entry" /\ call[t].op = "update"
  /\ IF ~linkedlist_initialized(call[t].list, item_size, copy)
        \/ call[t].value = NULL
     THEN ReturnEarly(t, EINVAL)
     ELSE /\ pc' = [pc EXCEPT ![t] = "lock"]
          /\ UNCHANGED <<status, exp>>
  /\ UNCHANGED <<listvars, heapvars, lock, call, item, current, out, counters,
                 fault, S, pre>>
  /\ UNCHANGED <<log, orphans>>
  /\ UNCHANGED datavars
  /\ UNCHANGED <<mutexvars, raced>>

\* The bug of a search loop that runs once too often (_ <= index).
linkedlist_update_search_LoopOnceMore(h, nx, index) == Walk(nx, h, index + 1)

\* The item at index: the search loop of linkedlist_update().
linkedlist_update_search(h, nx, index) == Walk(nx, h, index)

\* Under the lock: search the item; not found is ERANGE.
linkedlist_update_find(t) ==
  /\ pc[t] = "update_find"
  /\ LET found == linkedlist_update_search(head, node_next, call[t].index)
     IN  /\ item' = [item EXCEPT ![t] = found]
         /\ fault' = (fault \/ Dangling(WalkReads(node_next, head, call[t].index)))
         /\ IF found = NULL
            THEN /\ status' = [status EXCEPT ![t] = ERANGE]
                 /\ exp' = [exp EXCEPT ![t] = AbsResult(S, call[t])]
                 /\ pc' = [pc EXCEPT ![t] = "unlock"]
            ELSE /\ pc' = [pc EXCEPT ![t] = "update_dealloc"]
                 /\ UNCHANGED <<status, exp>>
  /\ UNCHANGED <<listvars, heapvars, lock, call, current, out, counters, S, pre>>
  /\ UNCHANGED <<log, orphans>>
  /\ UNCHANGED datavars
  /\ UNCHANGED <<mutexvars, raced>>

\* The bug of releasing the lock between the dealloc hook and the copy.
linkedlist_update_dealloc_Unlocks(t) ==
  /\ pc[t] = "update_dealloc"
  /\ IF dealloc # NULL
     THEN node_value' = [node_value EXCEPT ![item[t]] = RELEASED]
     ELSE UNCHANGED node_value
  /\ fault' = (fault \/ Dangling({item[t]}) \/ vbuf[item[t]] # "live"
                     \/ (dealloc # NULL /\ node_value[item[t]] = RELEASED))
  /\ pc' = [pc EXCEPT ![t] = "update_copy"]
  /\ lock' = NULL
  /\ UNCHANGED <<listvars, node_next, mem, vbuf, call, item, current,
                 status, out, counters, S, exp, pre>>
  /\ log' = IF dealloc # NULL
            THEN [log EXCEPT ![t] = Append(@, Event("dealloc", item[t]))]
            ELSE log
  /\ UNCHANGED orphans
  /\ UNCHANGED datavars
  /\ UNCHANGED <<mutexvars, raced>>

\* if (list->_dealloc != NULL) list->_dealloc(item->_value);
linkedlist_update_dealloc(t) ==
  /\ pc[t] = "update_dealloc"
  /\ IF dealloc # NULL
     THEN node_value' = [node_value EXCEPT ![item[t]] = RELEASED]
     ELSE UNCHANGED node_value
  /\ fault' = (fault \/ Dangling({item[t]}) \/ vbuf[item[t]] # "live"
                     \/ (dealloc # NULL /\ node_value[item[t]] = RELEASED))
  /\ pc' = [pc EXCEPT ![t] = "update_copy"]
  /\ UNCHANGED <<listvars, node_next, mem, vbuf, lock, call, item, current,
                 status, out, counters, S, exp, pre>>
  /\ log' = IF dealloc # NULL
            THEN [log EXCEPT ![t] = Append(@, Event("dealloc", item[t]))]
            ELSE log
  /\ UNCHANGED orphans
  /\ UNCHANGED datavars
  /\ UNCHANGED <<mutexvars, raced>>

\* The bug of an update that clears the dealloc hook of the list.
linkedlist_update_copy_ResetsDealloc(t) ==
  /\ pc[t] = "update_copy"
  /\ node_value' = [node_value EXCEPT ![item[t]] =
                      CopyValue(copy, call[t].value)]
  /\ fault' = (fault \/ Dangling({item[t]}) \/ vbuf[item[t]] # "live")
  /\ status' = [status EXCEPT ![t] = LINKEDLIST_SUCCESS]
  /\ exp' = [exp EXCEPT ![t] = AbsResult(S, call[t])]
  /\ S' = AbsNext(S, call[t], LINKEDLIST_SUCCESS)
  /\ pc' = [pc EXCEPT ![t] = "unlock"]
  /\ dealloc' = NULL
  /\ UNCHANGED <<head, item_size, copy, node_next, mem, vbuf, lock, call, item,
                 current, out, counters, pre>>
  /\ log' = [log EXCEPT ![t] = Append(@, Event("copy", item[t]))]
  /\ node_data' = [node_data EXCEPT ![item[t]] =
                     CopyData(copy, OwnData(item[t]), ValueData(t))]
  /\ UNCHANGED <<orphans, out_data, vsize>>
  /\ UNCHANGED <<mutexvars, raced>>

\* list->_copy(item->_value, value, list->_item_size);
linkedlist_update_copy(t) ==
  /\ pc[t] = "update_copy"
  /\ node_value' = [node_value EXCEPT ![item[t]] =
                      CopyValue(copy, call[t].value)]
  /\ fault' = (fault \/ Dangling({item[t]}) \/ vbuf[item[t]] # "live")
  /\ status' = [status EXCEPT ![t] = LINKEDLIST_SUCCESS]
  /\ exp' = [exp EXCEPT ![t] = AbsResult(S, call[t])]
  /\ S' = AbsNext(S, call[t], LINKEDLIST_SUCCESS)
  /\ pc' = [pc EXCEPT ![t] = "unlock"]
  /\ UNCHANGED <<listvars, node_next, mem, vbuf, lock, call, item, current,
                 out, counters, pre>>
  /\ log' = [log EXCEPT ![t] = Append(@, Event("copy", item[t]))]
  /\ node_data' = [node_data EXCEPT ![item[t]] =
                     CopyData(copy, OwnData(item[t]), ValueData(t))]
  /\ UNCHANGED <<orphans, out_data, vsize>>
  /\ UNCHANGED <<mutexvars, raced>>

(***************************************************************************)
(* linkedlist_length()                                                     *)
(***************************************************************************)

\* The bug of a length that sets *length_buffer to 0 before its checks.
linkedlist_length_entry_ZeroesFirst(t) ==
  /\ pc[t] = "entry" /\ call[t].op = "length"
  /\ IF ~linkedlist_initialized(call[t].list, item_size, copy)
        \/ call[t].buffer = NULL
     THEN /\ ReturnEarly(t, EINVAL)
          /\ out' = [out EXCEPT ![t] = IF call[t].buffer # NULL THEN 0 ELSE @]
     ELSE /\ pc' = [pc EXCEPT ![t] = "lock"]
          /\ UNCHANGED <<status, exp, out>>
  /\ UNCHANGED <<listvars, heapvars, lock, call, item, current, counters,
                 fault, S, pre>>
  /\ UNCHANGED <<log, orphans>>
  /\ UNCHANGED datavars
  /\ UNCHANGED <<mutexvars, raced>>

\* Check that the list is initialized and the buffer is not NULL.
linkedlist_length_entry(t) ==
  /\ pc[t] = "entry" /\ call[t].op = "length"
  /\ IF ~linkedlist_initialized(call[t].list, item_size, copy)
        \/ call[t].buffer = NULL
     THEN ReturnEarly(t, EINVAL)
     ELSE /\ pc' = [pc EXCEPT ![t] = "lock"]
          /\ UNCHANGED <<status, exp>>
  /\ UNCHANGED <<listvars, heapvars, lock, call, item, current, out, counters,
                 fault, S, pre>>
  /\ UNCHANGED <<log, orphans>>
  /\ UNCHANGED datavars
  /\ UNCHANGED <<mutexvars, raced>>

\* Under the lock: *length_buffer = 0, then one more for every item.
linkedlist_length_count(t) ==
  /\ pc[t] = "length_count"
  /\ LET r == linkedlist_length_result(head, node_next)
     IN  /\ r.out # NONE
         /\ status' = [status EXCEPT ![t] = r.status]
         /\ out' = [out EXCEPT ![t] = r.out]
  /\ fault' = (fault \/ Dangling(SeqToSet(Path(node_next, head, Fuel))))
  /\ exp' = [exp EXCEPT ![t] = AbsResult(S, call[t])]
  /\ pc' = [pc EXCEPT ![t] = "unlock"]
  /\ UNCHANGED <<listvars, heapvars, lock, call, item, current, counters, S, pre>>
  /\ UNCHANGED <<log, orphans>>
  /\ UNCHANGED datavars
  /\ UNCHANGED <<mutexvars, raced>>

(***************************************************************************)
(* linkedlist_initialize() and linkedlist_destroy()                        *)
(***************************************************************************)

\* The calls that begin and end the lifetime of a list.
InitializeCalls ==
  {[op |-> "initialize", list |-> l, index |-> 0, value |-> NULL,
    buffer |-> NULL, size |-> sz, copy |-> h[1], dealloc |-> h[2]] :
      l \in {LIST, NULL}, sz \in {0, ItemSize}, h \in HookArgs}

DestroyCalls ==
  {[op |-> "destroy", list |-> l, index |-> 0, value |-> NULL,
    buffer |-> NULL] : l \in {LIST, NULL}}

LifetimeCalls == Calls \cup InitializeCalls \cup DestroyCalls

\* A thread calls a library function; on a LinkedList object that was never
\* initialized it calls linkedlist_initialize() only.
LifeCall(t) ==
  /\ pc[t] = "idle"
  /\ budget[t] > 0
  /\ \E c \in LifetimeCalls :
       /\ lock = UNSET => (c.op = "initialize" \/ c.list = NULL)
       /\ call' = [call EXCEPT ![t] = c]
  /\ budget' = [budget EXCEPT ![t] = @ - 1]
  /\ pc' = [pc EXCEPT ![t] = "entry"]
  /\ pre' = IF Alone(t) THEN Observed ELSE NoObs
  /\ UNCHANGED <<listvars, heapvars, lock, item, current, status, out, fault,
                 nadds, nremoves, S, exp, log, orphans>>
  /\ UNCHANGED datavars
  /\ UNCHANGED <<mutexvars, raced>>

\* The statuses other than 0 that pthread_mutex_init() returns.
MutexInitErrors == {EAGAIN, ENOMEM}

\* The bug of a parameter check that lets an item size of 0 pass.
linkedlist_initialize_call_NoSizeCheck(t) ==
  /\ pc[t] = "entry" /\ call[t].op = "initialize"
  /\ IF call[t].list = NULL
     THEN /\ status' = [status EXCEPT ![t] = EINVAL]
          /\ UNCHANGED <<listvars, lock, log, orphans, S>>
     ELSE \/ /\ \E e \in MutexInitErrors :
                  /\ status' = [status EXCEPT ![t] = e]
                  /\ log' = [log EXCEPT ![t] =
                               Append(@, Event("mutex_init_failed", e))]
             /\ UNCHANGED <<listvars, lock, orphans, S>>
          \/ /\ LET l == linkedlist_initialize(call[t].size, call[t].copy,
                                               call[t].dealloc)
                IN  /\ head' = l.head
                    /\ item_size' = l.item_size
                    /\ copy' = l.copy
                    /\ dealloc' = l.dealloc
             /\ lock' = NULL
             /\ log' = [log EXCEPT ![t] = Append(@, Event("mutex_init", NULL))]
             /\ orphans' = orphans \cup {n \in SeqToSet(Chain) : mem[n] = "live"}
             /\ S' = <<>>
             /\ status' = [status EXCEPT ![t] = LINKEDLIST_SUCCESS]
  /\ pc' = [pc EXCEPT ![t] = "ret"]
  /\ UNCHANGED <<heapvars, call, item, current, out, counters, fault, exp, pre>>
  /\ UNCHANGED datavars
  /\ UNCHANGED <<mutexvars, raced>>

\* The bug of setting the members before pthread_mutex_init() is called.
linkedlist_initialize_call_WritesFirst(t) ==
  /\ pc[t] = "entry" /\ call[t].op = "initialize"
  /\ IF call[t].list = NULL \/ call[t].size = 0
     THEN /\ status' = [status EXCEPT ![t] = EINVAL]
          /\ UNCHANGED <<listvars, lock, log, orphans, S>>
     ELSE \/ /\ \E e \in MutexInitErrors :
                  /\ status' = [status EXCEPT ![t] = e]
                  /\ log' = [log EXCEPT ![t] =
                               Append(@, Event("mutex_init_failed", e))]
             /\ LET l == linkedlist_initialize(call[t].size, call[t].copy,
                                               call[t].dealloc)
                IN  /\ head' = l.head
                    /\ item_size' = l.item_size
                    /\ copy' = l.copy
                    /\ dealloc' = l.dealloc
             /\ UNCHANGED <<lock, orphans, S>>
          \/ /\ LET l == linkedlist_initialize(call[t].size, call[t].copy,
                                               call[t].dealloc)
                IN  /\ head' = l.head
                    /\ item_size' = l.item_size
                    /\ copy' = l.copy
                    /\ dealloc' = l.dealloc
             /\ lock' = NULL
             /\ log' = [log EXCEPT ![t] = Append(@, Event("mutex_init", NULL))]
             /\ orphans' = orphans \cup {n \in SeqToSet(Chain) : mem[n] = "live"}
             /\ S' = <<>>
             /\ status' = [status EXCEPT ![t] = LINKEDLIST_SUCCESS]
  /\ pc' = [pc EXCEPT ![t] = "ret"]
  /\ UNCHANGED <<heapvars, call, item, current, out, counters, fault, exp, pre>>
  /\ UNCHANGED datavars
  /\ UNCHANGED <<mutexvars, raced>>

\* The bug of a linkedlist_initialize() that rejects a list that was destroyed.
linkedlist_initialize_call_OnceOnly(t) ==
  /\ pc[t] = "entry" /\ call[t].op = "initialize"
  /\ IF call[t].list = NULL \/ call[t].size = 0 \/ lock = DESTROYED
     THEN /\ status' = [status EXCEPT ![t] = EINVAL]
          /\ UNCHANGED <<listvars, lock, log, orphans, S>>
     ELSE \/ /\ \E e \in MutexInitErrors :
                  /\ status' = [status EXCEPT ![t] = e]
                  /\ log' = [log EXCEPT ![t] =
                               Append(@, Event("mutex_init_failed", e))]
             /\ UNCHANGED <<listvars, lock, orphans, S>>
          \/ /\ LET l == linkedlist_initialize(call[t].size, call[t].copy,
                                               call[t].dealloc)
                IN  /\ head' = l.head
                    /\ item_size' = l.item_size
                    /\ copy' = l.copy
                    /\ dealloc' = l.dealloc
             /\ lock' = NULL
             /\ log' = [log EXCEPT ![t] = Append(@, Event("mutex_init", NULL))]
             /\ orphans' = orphans \cup {n \in SeqToSet(Chain) : mem[n] = "live"}
             /\ S' = <<>>
             /\ status' = [status EXCEPT ![t] = LINKEDLIST_SUCCESS]
  /\ pc' = [pc EXCEPT ![t] = "ret"]
  /\ UNCHANGED <<heapvars, call, item, current, out, counters, fault, exp, pre>>
  /\ UNCHANGED datavars
  /\ UNCHANGED <<mutexvars, raced>>

\* linkedlist_initialize(): the parameter check, pthread_mutex_init(), which
\* can fail, and the initial member values.  The members are written without
\* a look at what they held: the nodes of a chain they held stay allocated.
linkedlist_initialize_call(t) ==
  /\ pc[t] = "entry" /\ call[t].op = "initialize"
  /\ IF call[t].list = NULL \/ call[t].size = 0
     THEN /\ status' = [status EXCEPT ![t] = EINVAL]
          /\ UNCHANGED <<listvars, lock, log, orphans, S>>
     ELSE \/ /\ \E e \in MutexInitErrors :
                  /\ status' = [status EXCEPT ![t] = e]
                  /\ log' = [log EXCEPT ![t] =
                               Append(@, Event("mutex_init_failed", e))]
             /\ UNCHANGED <<listvars, lock, orphans, S>>
          \/ /\ LET l == linkedlist_initialize(call[t].size, call[t].copy,
                                               call[t].dealloc)
                IN  /\ head' = l.head
                    /\ item_size' = l.item_size
                    /\ copy' = l.copy
                    /\ dealloc' = l.dealloc
             /\ lock' = NULL
             /\ log' = [log EXCEPT ![t] = Append(@, Event("mutex_init", NULL))]
             /\ orphans' = orphans \cup {n \in SeqToSet(Chain) : mem[n] = "live"}
             /\ S' = <<>>
             /\ status' = [status EXCEPT ![t] = LINKEDLIST_SUCCESS]
  /\ pc' = [pc EXCEPT ![t] = "ret"]
  /\ UNCHANGED <<heapvars, call, item, current, out, counters, fault, exp, pre>>
  /\ UNCHANGED datavars
  /\ UNCHANGED <<mutexvars, raced>>

\* if (list != NULL) { ListItem *current = list->_head;
linkedlist_destroy_entry(t) ==
  /\ pc[t] = "entry" /\ call[t].op = "destroy"
  /\ IF call[t].list = NULL
     THEN /\ pc' = [pc EXCEPT ![t] = "ret"]
          /\ UNCHANGED current
     ELSE /\ pc' = [pc EXCEPT ![t] = "destroy_loop"]
          /\ current' = [current EXCEPT ![t] = head]
  /\ UNCHANGED <<listvars, heapvars, lock, call, item, status, out, counters,
                 fault, S, exp, pre, log, orphans>>
  /\ UNCHANGED datavars
  /\ UNCHANGED <<mutexvars, raced>>

\* The bug of a loop that frees the values without calling the dealloc hook.
linkedlist_destroy_item_NoDealloc(n, de, nv) ==
  (IF nv[n] # NULL THEN <<Event("free_value", n)>> ELSE <<>>)
  \o <<Event("free_item", n)>>

\* What one turn of the loop of linkedlist_destroy() does to the node n.
linkedlist_destroy_item(n, de, nv) ==
  (IF nv[n] # NULL /\ de # NULL THEN <<Event("dealloc", n)>> ELSE <<>>)
  \o (IF nv[n] # NULL THEN <<Event("free_value", n)>> ELSE <<>>)
  \o <<Event("free_item", n)>>

\* The bug of an if in the place of the while: the first item only is freed.
linkedlist_destroy_loop_HeadOnly(t) ==
  /\ pc[t] = "destroy_loop"
  /\ IF current[t] = NULL
     THEN /\ pc' = [pc EXCEPT ![t] = "destroy_lock"]
          /\ UNCHANGED <<heapvars, current, fault, log>>
     ELSE LET n == current[t]
              events == linkedlist_destroy_item(n, dealloc, node_value)
              did(e) == \E i \in 1..Len(events) : events[i].ev = e
          IN  /\ current' = [current EXCEPT ![t] = NULL]
              /\ node_value' = IF did("dealloc")
                               THEN [node_value EXCEPT ![n] = RELEASED]
                               ELSE node_value
              /\ vbuf' = IF did("free_value")
                         THEN [vbuf EXCEPT ![n] = "freed"] ELSE vbuf
              /\ mem' = IF did("free_item")
                        THEN [mem EXCEPT ![n] = "freed"] ELSE mem
              /\ fault' = (fault \/ Dangling({n})
                                 \/ (did("free_value") /\ vbuf[n] # "live")
                                 \/ (did("dealloc") /\ node_value[n] = RELEASED))
              /\ log' = [log EXCEPT ![t] = @ \o events]
              /\ UNCHANGED <<node_next, pc>>
  /\ UNCHANGED <<listvars, lock, call, item, status, out, counters, S, exp, pre,
                 orphans>>
  /\ UNCHANGED datavars
  /\ UNCHANGED <<mutexvars, raced>>

\* while (current != NULL) { to_be_freed = current; current = current->_next;
\* dealloc and free of to_be_freed->_value; free(to_be_freed); }
linkedlist_destroy_loop(t) ==
  /\ pc[t] = "destroy_loop"
  /\ IF current[t] = NULL
     THEN /\ pc' = [pc EXCEPT ![t] = "destroy_lock"]
          /\ UNCHANGED <<heapvars, current, fault, log>>
     ELSE LET n == current[t]
              events == linkedlist_destroy_item(n, dealloc, node_value)
              did(e) == \E i \in 1..Len(events) : events[i].ev = e
          IN  /\ current' = [current EXCEPT ![t] = node_next[n]]
              /\ node_value' = IF did("dealloc")
                               THEN [node_value EXCEPT ![n] = RELEASED]
                               ELSE node_value
              /\ vbuf' = IF did("free_value")
                         THEN [vbuf EXCEPT ![n] = "freed"] ELSE vbuf
              /\ mem' = IF did("free_item")
                        THEN [mem EXCEPT ![n] = "freed"] ELSE mem
              /\ fault' = (fault \/ Dangling({n})
                                 \/ (did("free_value") /\ vbuf[n] # "live")
                                 \/ (did("dealloc") /\ node_value[n] = RELEASED))
              /\ log' = [log EXCEPT ![t] = @ \o events]
              /\ UNCHANGED <<node_next, pc>>
  /\ UNCHANGED <<listvars, lock, call, item, status, out, counters, S, exp, pre,
                 orphans>>
  /\ UNCHANGED datavars
  /\ UNCHANGED <<mutexvars, raced>>

\* pthread_mutex_destroy(&list->_lock), made whatever state the lock is in;
\* its return value is not looked at.  On a mutex a thread holds the
\* behaviour is undefined: the mutex is destroyed, or the call fails and
\* leaves it as it was.
linkedlist_destroy_lock(t) ==
  /\ pc[t] = "destroy_lock"
  /\ IF lock \in Threads
     THEN /\ lock' \in {lock, DESTROYED}
          /\ fault' = TRUE
     ELSE /\ lock' = DESTROYED
          /\ UNCHANGED fault
  /\ log' = [log EXCEPT ![t] = Append(@, Event("mutex_destroy", NULL))]
  /\ pc' = [pc EXCEPT ![t] = "destroy_invalidate"]
  /\ UNCHANGED <<listvars, heapvars, call, item, current, status, out, counters,
                 S, exp, pre, orphans>>
  /\ UNCHANGED datavars
  /\ UNCHANGED <<mutexvars, raced>>

\* The bug of a linkedlist_destroy() that leaves list->_copy as it was.
linkedlist_destroy_invalidate_KeepsCopy(t) ==
  /\ pc[t] = "destroy_invalidate"
  /\ head' = NULL
  /\ UNCHANGED copy
  /\ dealloc' = NULL
  /\ S' = <<>>
  /\ pc' = [pc EXCEPT ![t] = "ret"]
  /\ UNCHANGED <<item_size, heapvars, lock, call, item, current, status, out,
                 counters, fault, exp, pre, log, orphans>>
  /\ UNCHANGED datavars
  /\ UNCHANGED <<mutexvars, raced>>

\* list->_head = NULL; list->_copy = NULL; list->_dealloc = NULL;
linkedlist_destroy_invalidate(t) ==
  /\ pc[t] = "destroy_invalidate"
  /\ head' = NULL
  /\ copy' = NULL
  /\ dealloc' = NULL
  /\ S' = <<>>
  /\ pc' = [pc EXCEPT ![t] = "ret"]
  /\ UNCHANGED <<item_size, heapvars, lock, call, item, current, status, out,
                 counters, fault, exp, pre, log, orphans>>
  /\ UNCHANGED datavars
  /\ UNCHANGED <<mutexvars, raced>>

(***************************************************************************)
(* The lock layer: linkedlist_mutex_initialize(), linkedlist_mutex_lock(),  *)
(* linkedlist_mutex_unlock() and linkedlist_mutex_destroy() on one handle   *)
(* of type linkedlist_mutex_t, which is NULL or points to a native lock.    *)
(***************************************************************************)
MutexOps == {"mutex_initialize", "mutex_lock", "mutex_unlock", "mutex_destroy"}

\* The calls into the lock layer: on the handle or on a NULL pointer.
MutexCalls == [op : MutexOps, lock : {NULL, HANDLE}]

\* The handle and the native locks; every call into the lock layer carries
\* what they were when it was issued (call[t].at).
MutexObserved == [mutex |-> mutex, native |-> native]

\* State of the native lock p points to, "none" when p points to none.
NativeState(p) == IF p \in Natives THEN native[p].st ELSE "none"

\* The native lock is held by a thread.
NativeHeld == \E o \in Natives : native[o].st = "locked"

\* The check every function of the lock layer starts with.
linkedlist_mutex_valid_IgnoresHandle(l, m) == l # NULL

\* (lock != NULL) && ((*lock) != NULL)
linkedlist_mutex_valid(l, m) == l # NULL /\ m # NULL

\* Another thread is initializing or destroying the handle.
HandleBusy(t) ==
  \E u \in Threads \ {t} :
    pc[u] # "idle" /\ call[u].op \in {"mutex_initialize", "mutex_destroy"}
                  /\ call[u].lock # NULL

\* A thread calls a function of the lock layer.  The callers keep what the
\* functions require: the handle is initialized and destroyed while no other
\* thread is inside the layer and no thread holds the lock, a thread locks a
\* lock it does not hold and unlocks a lock it holds.
MutexCall(t) ==
  /\ pc[t] = "idle"
  /\ budget[t] > 0
  /\ ~HandleBusy(t)
  /\ \E c \in MutexCalls :
       /\ (c.op \in {"mutex_initialize", "mutex_destroy"} /\ c.lock # NULL) =>
            (~NativeHeld /\ \A u \in Threads \ {t} : pc[u] = "idle")
       /\ (c.op = "mutex_lock" /\ c.lock # NULL /\ mutex # NULL) =>
            native[mutex].owner # t
       /\ (c.op = "mutex_unlock" /\ c.lock # NULL /\ mutex # NULL) =>
            (native[mutex].owner = t \/ native[mutex].st = "freed")
       /\ call' = [call EXCEPT ![t] =
                     [op |-> c.op, lock |-> c.lock, at |-> MutexObserved]]
  /\ budget' = [budget EXCEPT ![t] = @ - 1]
  /\ pc' = [pc EXCEPT ![t] = "entry"]
  /\ UNCHANGED <<listvars, heapvars, lock, item, current, status, out, fault,
                 nadds, nremoves, S, exp, pre, log, orphans>>
  /\ UNCHANGED datavars
  /\ UNCHANGED <<mutexvars, raced>>

\* The native lock malloc hands out next, NULL when the memory is used up.
malloc_native(nat) ==
  IF \E o \in Natives : nat[o].st = "unalloc"
  THEN CHOOSE o \in Natives :
         nat[o].st = "unalloc" /\ \A k \in Natives : k < o => nat[k].st # "unalloc"
  ELSE NULL

\* The bug of handing out the native lock in the locked state.
linkedlist_mutex_initialize_LeavesLocked(t) ==
  /\ pc[t] = "entry" /\ call[t].op = "mutex_initialize"
  /\ IF call[t].lock = NULL
     THEN /\ status' = [status EXCEPT ![t] = EINVAL]
          /\ UNCHANGED <<mutex, native, log>>
     ELSE \/ /\ mutex' = NULL                     \* malloc fails
             /\ status' = [status EXCEPT ![t] = ENOMEM]
             /\ UNCHANGED <<native, log>>
          \/ /\ malloc_native(native) # NULL      \* pthread_mutex_init fails
             /\ LET o == malloc_native(native)
                IN  /\ mutex' = o
                    /\ native' = [native EXCEPT ![o].st = "freed",
                                                ![o].frees = @ + 1]
                    /\ log' = [log EXCEPT ![t] =
                                 @ \o <<Event("native_init_failed", o),
                                        Event("native_free", o)>>]
             /\ status' = [status EXCEPT ![t] = EAGAIN]
          \/ /\ malloc_native(native) # NULL
             /\ LET o == malloc_native(native)
                IN  /\ mutex' = o
                    /\ native' = [native EXCEPT ![o].st = "locked",
                                                ![o].owner = t]
                    /\ log' = [log EXCEPT ![t] =
                                 Append(@, Event("native_init", o))]
             /\ status' = [status EXCEPT ![t] = LINKEDLIST_MUTEX_SUCCESS]
  /\ pc' = [pc EXCEPT ![t] = "ret"]
  /\ UNCHANGED <<listvars, heapvars, lock, call, item, current, out, counters,
                 fault, S, exp, pre, orphans, raced>>
  /\ UNCHANGED datavars

\* linkedlist_mutex_initialize(): malloc of the native lock, pthread_mutex_init
linkedlist_mutex_initialize(t) ==
  /\ pc[t] = "entry" /\ call[t].op = "mutex_initialize"
  /\ IF call[t].lock = NULL
     THEN /\ status' = [status EXCEPT ![t] = EINVAL]
          /\ UNCHANGED <<mutex, native, log>>
     ELSE \/ /\ mutex' = NULL                     \* malloc fails
             /\ status' = [status EXCEPT ![t] = ENOMEM]
             /\ UNCHANGED <<native, log>>
          \/ /\ malloc_native(native) # NULL      \* pthread_mutex_init fails
             /\ LET o == malloc_native(native)
                IN  /\ mutex' = o
                    /\ native' = [native EXCEPT ![o].st = "freed",
                                                ![o].frees = @ + 1]
                    /\ log' = [log EXCEPT ![t] =
                                 @ \o <<Event("native_init_failed", o),
                                        Event("native_free", o)>>]
             /\ status' = [status EXCEPT ![t] = EAGAIN]
          \/ /\ malloc_native(native) # NULL
             /\ LET o == malloc_native(native)
                IN  /\ mutex' = o
                    /\ native' = [native EXCEPT ![o].st = "ready"]
                    /\ log' = [log EXCEPT ![t] =
                                 Append(@, Event("native_init", o))]
             /\ status' = [status EXCEPT ![t] = LINKEDLIST_MUTEX_SUCCESS]
  /\ pc' = [pc EXCEPT ![t] = "ret"]
  /\ UNCHANGED <<listvars, heapvars, lock, call, item, current, out, counters,
                 fault, S, exp, pre, orphans, raced>>
  /\ UNCHANGED datavars

\* linkedlist_mutex_lock(): the check of the handle
linkedlist_mutex_lock_entry(t) ==
  /\ pc[t] = "entry" /\ call[t].op = "mutex_lock"
  /\ IF linkedlist_mutex_valid(call[t].lock, mutex)
     THEN /\ pc' = [pc EXCEPT ![t] = "mutex_acquire"]
          /\ UNCHANGED status
     ELSE /\ pc' = [pc EXCEPT ![t] = "ret"]
          /\ status' = [status EXCEPT ![t] = EINVAL]
  /\ UNCHANGED <<listvars, heapvars, lock, call, item, current, out, counters,
                 fault, S, exp, pre, log, orphans, raced>>
  /\ UNCHANGED datavars
  /\ UNCHANGED mutexvars

\* linkedlist_mutex_lock(): pthread_mutex_lock(*lock), which waits while
\* another thread holds the native lock.  On a pointer to no native lock or
\* to a freed one the call is undefined and returns whatever.
linkedlist_mutex_lock_acquire(t) ==
  /\ pc[t] = "mutex_acquire"
  /\ NativeState(mutex) # "locked"
  /\ IF NativeState(mutex) = "ready"
     THEN /\ native' = [native EXCEPT ![mutex].st = "locked",
                                      ![mutex].owner = t]
          /\ status' = [status EXCEPT ![t] = LINKEDLIST_MUTEX_SUCCESS]
          /\ log' = [log EXCEPT ![t] = Append(@, Event("native_lock", mutex))]
          /\ UNCHANGED fault
     ELSE /\ fault' = TRUE
          /\ \E st \in {LINKEDLIST_MUTEX_SUCCESS, EINVAL} :
               status' = [status EXCEPT ![t] = st]
          /\ log' = [log EXCEPT ![t] = Append(@, Event("native_lock", mutex))]
          /\ UNCHANGED native
  /\ pc' = [pc EXCEPT ![t] = "ret"]
  /\ UNCHANGED <<listvars, heapvars, lock, call, item, current, out, counters,
                 S, exp, pre, orphans, raced, mutex>>
  /\ UNCHANGED datavars

\* linkedlist_mutex_unlock(): the check of the handle, pthread_mutex_unlock
linkedlist_mutex_unlock(t) ==
  /\ pc[t] = "entry" /\ call[t].op = "mutex_unlock"
  /\ IF linkedlist_mutex_valid(call[t].lock, mutex)
     THEN /\ IF NativeState(mutex) = "locked" /\ native[mutex].owner = t
             THEN /\ native' = [native EXCEPT ![mutex].st = "ready",
                                              ![mutex].owner = NULL]
                  /\ status' = [status EXCEPT ![t] = LINKEDLIST_MUTEX_SUCCESS]
                  /\ UNCHANGED fault
             ELSE /\ fault' = TRUE
                  /\ \E st \in {LINKEDLIST_MUTEX_SUCCESS, EINVAL} :
                       status' = [status EXCEPT ![t] = st]
                  /\ UNCHANGED native
          /\ log' = [log EXCEPT ![t] = Append(@, Event("native_unlock", mutex))]
     ELSE /\ status' = [status EXCEPT ![t] = EINVAL]
          /\ UNCHANGED <<native, fault, log>>
  /\ pc' = [pc EXCEPT ![t] = "ret"]
  /\ UNCHANGED <<listvars, heapvars, lock, call, item, current, out, counters,
                 S, exp, pre, orphans, raced, mutex>>
  /\ UNCHANGED datavars

\* The bug of leaving the handle as it is when the native lock is gone.
linkedlist_mutex_destroy_KeepsHandle(t) ==
  /\ pc[t] = "entry" /\ call[t].op = "mutex_destroy"
  /\ IF linkedlist_mutex_valid(call[t].lock, mutex)
     THEN /\ native' = [native EXCEPT
                          ![mutex].st = "freed",
                          ![mutex].owner = NULL,
                          ![mutex].destroys = @ + 1,
                          ![mutex].frees = @ + 1]
          /\ UNCHANGED mutex
          /\ fault' = (fault \/ NativeState(mutex) # "ready")
          /\ log' = [log EXCEPT ![t] = @ \o <<Event("native_destroy", mutex),
                                             Event("native_free", mutex)>>]
     ELSE UNCHANGED <<mutex, native, fault, log>>
  /\ pc' = [pc EXCEPT ![t] = "ret"]
  /\ UNCHANGED <<listvars, heapvars, lock, call, item, current, status, out,
                 counters, S, exp, pre, orphans, raced>>
  /\ UNCHANGED datavars

\* linkedlist_mutex_destroy(): pthread_mutex_destroy(*lock); free(*lock);
\* *lock = NULL, when the handle is not empty.
linkedlist_mutex_destroy(t) ==
  /\ pc[t] = "entry" /\ call[t].op = "mutex_destroy"
  /\ IF linkedlist_mutex_valid(call[t].lock, mutex)
     THEN /\ native' = [native EXCEPT
                          ![mutex].st = "freed",
                          ![mutex].owner = NULL,
                          ![mutex].destroys = @ + 1,
                          ![mutex].frees = @ + 1]
          /\ mutex' = NULL
          /\ fault' = (fault \/ NativeState(mutex) # "ready")
          /\ log' = [log EXCEPT ![t] = @ \o <<Event("native_destroy", mutex),
                                             Event("native_free", mutex)>>]
     ELSE UNCHANGED <<mutex, native, fault, log>>
  /\ pc' = [pc EXCEPT ![t] = "ret"]
  /\ UNCHANGED <<listvars, heapvars, lock, call, item, current, status, out,
                 counters, S, exp, pre, orphans, raced>>
  /\ UNCHANGED datavars

(***************************************************************************)
(* The caller's own memory.  A write of the caller reaches every value of   *)
(* the list that is held in the memory the caller writes to.               *)
(***************************************************************************)

\* list->_copy(item->_value, value, list->_item_size) of linkedlist_add()
\* when the custom hook returns NULL: it has written nothing to the fresh
\* value buffer, and linkedlist_add() does not look at what it returned.
linkedlist_add_entry_copy_fails(t) ==
  /\ pc[t] = "entry" /\ call[t].op = "add"
  /\ linkedlist_initialized(call[t].list, item_size, copy)
  /\ call[t].value # NULL
  /\ copy # memcpy
  /\ malloc(mem) # NULL
  /\ LET n == malloc(mem)
     IN  /\ mem' = [mem EXCEPT ![n] = "live"]
         /\ vbuf' = [vbuf EXCEPT ![n] = "live"]
         /\ vsize' = [vsize EXCEPT ![n] = item_size]
         /\ node_next' = [node_next EXCEPT ![n] = NULL]
         /\ node_value' = [node_value EXCEPT ![n] = UNSET]
         /\ item' = [item EXCEPT ![t] = n]
         /\ log' = [log EXCEPT ![t] = Append(@, Event("copy_failed", n))]
  /\ pc' = [pc EXCEPT ![t] = "lock"]
  /\ UNCHANGED <<listvars, lock, call, current, status, out, counters, fault, S,
                 exp, pre, orphans, node_data, out_data>>
  /\ UNCHANGED <<mutexvars, raced>>

\* list->_copy(buffer, item->_value, list->_item_size) of linkedlist_get()
\* when the custom hook returns NULL: the buffer of the caller is as it was,
\* and linkedlist_get() does not look at what the hook returned.
linkedlist_get_copy_fails(t) ==
  /\ pc[t] = "get_copy"
  /\ copy # memcpy
  /\ LET found == Walk(node_next, head, call[t].index)
     IN  /\ found # NULL
         /\ fault' = (fault \/ Dangling(
                         WalkReads(node_next, head, call[t].index) \cup {found})
                            \/ vbuf[found] # "live")
         /\ log' = [log EXCEPT ![t] = Append(@, Event("copy_failed", found))]
  /\ status' = [status EXCEPT ![t] = LINKEDLIST_SUCCESS]
  /\ exp' = [exp EXCEPT ![t] = AbsResult(S, call[t])]
  /\ pc' = [pc EXCEPT ![t] = "unlock"]
  /\ UNCHANGED <<listvars, heapvars, lock, call, item, current, out, counters,
                 S, pre, orphans>>
  /\ UNCHANGED datavars
  /\ UNCHANGED <<mutexvars, raced>>

\* The bug of a linkedlist_update() that returns the failure of the hook.
linkedlist_update_copy_fails_ReturnsError(t) ==
  /\ pc[t] = "update_copy"
  /\ copy # memcpy
  /\ fault' = (fault \/ Dangling({item[t]}) \/ vbuf[item[t]] # "live")
  /\ status' = [status EXCEPT ![t] = EINVAL]
  /\ exp' = [exp EXCEPT ![t] = AbsResult(S, call[t])]
  /\ S' = AbsNext(S, call[t], LINKEDLIST_SUCCESS)
  /\ pc' = [pc EXCEPT ![t] = "unlock"]
  /\ log' = [log EXCEPT ![t] = Append(@, Event("copy_failed", item[t]))]
  /\ UNCHANGED <<listvars, heapvars, lock, call, item, current, out, counters,
                 pre, orphans>>
  /\ UNCHANGED datavars
  /\ UNCHANGED <<mutexvars, raced>>

\* list->_copy(item->_value, value, list->_item_size) of linkedlist_update()
\* when the custom hook returns NULL: the value is as the dealloc hook left
\* it, and linkedlist_update() does not look at what the hook returned.
linkedlist_update_copy_fails(t) ==
  /\ pc[t] = "update_copy"
  /\ copy # memcpy
  /\ fault' = (fault \/ Dangling({item[t]}) \/ vbuf[item[t]] # "live")
  /\ status' = [status EXCEPT ![t] = LINKEDLIST_SUCCESS]
  /\ exp' = [exp EXCEPT ![t] = AbsResult(S, call[t])]
  /\ S' = AbsNext(S, call[t], LINKEDLIST_SUCCESS)
  /\ pc' = [pc EXCEPT ![t] = "unlock"]
  /\ log' = [log EXCEPT ![t] = Append(@, Event("copy_failed", item[t]))]
  /\ UNCHANGED <<listvars, heapvars, lock, call, item, current, out, counters,
                 pre, orphans>>
  /\ UNCHANGED datavars
  /\ UNCHANGED <<mutexvars, raced>>

\* After linkedlist_add() or linkedlist_update() returned, the caller
\* overwrites the value it passed with w.
CallerChangesValue(t) ==
  /\ pc[t] = "ret"
  /\ call[t].op \in {"add", "update"}
  /\ call[t].value # NULL
  /\ \E w \in Values \ {call[t].value} :
       /\ call' = [call EXCEPT ![t].value = w]
       /\ node_value' = [n \in Nodes |->
                           IF node_data[n] = ValueData(t) THEN w
                           ELSE node_value[n]]
  /\ UNCHANGED <<listvars, node_next, mem, vbuf, lock, pc, item, current,
                 status, out, counters, fault, S, exp, pre, log, orphans>>
  /\ UNCHANGED datavars
  /\ UNCHANGED <<mutexvars, raced>>

\* After linkedlist_get() returned LINKEDLIST_SUCCESS, the caller overwrites
\* the copy it received with w.
CallerChangesCopy(t) ==
  /\ pc[t] = "ret"
  /\ call[t].op = "get"
  /\ status[t] = LINKEDLIST_SUCCESS
  /\ \E w \in Values \ {out[t]} :
       /\ out' = [out EXCEPT ![t] = w]
       /\ node_value' = [n \in Nodes |->
                           IF node_data[n] = out_data[t] THEN w
                           ELSE node_value[n]]
  /\ UNCHANGED <<listvars, node_next, mem, vbuf, lock, pc, call, item, current,
                 status, counters, fault, S, exp, pre, log, orphans>>
  /\ UNCHANGED datavars
  /\ UNCHANGED <<mutexvars, raced>>

(***************************************************************************)
(* Specifications.                                                         *)
(***************************************************************************)
Step(t) ==
  \/ Call(t)
  \/ linkedlist_add_entry(t)
  \/ linkedlist_add_find(t)
  \/ linkedlist_add_link(t)
  \/ linkedlist_remove_entry(t)
  \/ linkedlist_remove_find(t)
  \/ linkedlist_remove_unlink(t)
  \/ linkedlist_remove_dealloc(t)
  \/ linkedlist_remove_free_value(t)
  \/ linkedlist_remove_free_item(t)
  \/ linkedlist_get_entry(t)
  \/ linkedlist_get_copy(t)
  \/ linkedlist_update_entry(t)
  \/ linkedlist_update_find(t)
  \/ linkedlist_update_dealloc(t)
  \/ linkedlist_update_copy(t)
  \/ linkedlist_length_entry(t)
  \/ linkedlist_length_count(t)
  \/ pthread_mutex_lock(t)
  \/ pthread_mutex_unlock(t)
  \/ Return(t)

Next == \E t \in Threads : Step(t)

\* Several threads call into one initialized list.
Spec == Init /\ [][Next]_vars

\* One thread calls into one initialized list.
SeqSpec == SeqInit /\ [][Next]_vars

\* The k-th add of thread t adds a value no other add adds.
AddValue(t, k) == (t - 1) * MaxCalls + k

\* A thread calls linkedlist_add() with the next of its values.
CallAdd(t) ==
  /\ pc[t] = "idle"
  /\ budget[t] > 0
  /\ call' = [call EXCEPT ![t] =
                [op |-> "add", list |-> LIST, index |-> 0,
                 value |-> AddValue(t, MaxCalls - budget[t] + 1),
                 buffer |-> NULL]]
  /\ budget' = [budget EXCEPT ![t] = @ - 1]
  /\ pc' = [pc EXCEPT ![t] = "entry"]
  /\ pre' = IF Alone(t) THEN Observed ELSE NoObs
  /\ UNCHANGED <<listvars, heapvars, lock, item, current, status, out, fault,
                 nadds, nremoves, S, exp>>
  /\ UNCHANGED <<log, orphans>>
  /\ UNCHANGED datavars
  /\ UNCHANGED <<mutexvars, raced>>

AddNext ==
  \E t \in Threads :
    \/ CallAdd(t)
    \/ linkedlist_add_entry(t)
    \/ linkedlist_add_find(t)
    \/ linkedlist_add_link(t)
    \/ pthread_mutex_lock(t)
    \/ pthread_mutex_unlock(t)
    \/ Return(t)

\* Several threads, each adding MaxCalls distinguishable values.
AddSpec == Init /\ [][AddNext]_vars

\* Several threads, FairCalls calls each, every thread that can take a step
\* of its call eventually takes it (the calls themselves are issued at will).
FairInit ==
  /\ InitList
  /\ InitRest
  /\ budget = [t \in Threads |-> FairCalls]

Progress(t) ==
  \/ linkedlist_add_entry(t)
  \/ linkedlist_add_find(t)
  \/ linkedlist_add_link(t)
  \/ linkedlist_remove_entry(t)
  \/ linkedlist_remove_find(t)
  \/ linkedlist_remove_unlink(t)
  \/ linkedlist_remove_dealloc(t)
  \/ linkedlist_remove_free_value(t)
  \/ linkedlist_remove_free_item(t)
  \/ linkedlist_get_entry(t)
  \/ linkedlist_get_copy(t)
  \/ linkedlist_update_entry(t)
  \/ linkedlist_update_find(t)
  \/ linkedlist_update_dealloc(t)
  \/ linkedlist_update_copy(t)
  \/ linkedlist_length_entry(t)
  \/ linkedlist_length_count(t)
  \/ pthread_mutex_lock(t)
  \/ pthread_mutex_unlock(t)
  \/ Return(t)

FairSpec ==
  FairInit /\ [][Next]_vars /\ \A t \in Threads : WF_vars(Progress(t))

\* A LinkedList object before linkedlist_initialize() was called on it: its
\* members hold whatever the memory held, its lock was never constructed.
LifeInit ==
  /\ head \in {NULL, MaxNodes}
  /\ item_size \in {0, ItemSize}
  /\ copy \in {NULL, memcpy}
  /\ dealloc \in {NULL, bytebuffer_dealloc}
  /\ lock = UNSET
  /\ InitRest
  /\ budget = [t \in Threads |-> IF t = 1 THEN LifeCalls ELSE 0]

LifeStep(t) ==
  \/ LifeCall(t)
  \/ linkedlist_initialize_call(t)
  \/ linkedlist_destroy_entry(t)
  \/ linkedlist_destroy_loop(t)
  \/ linkedlist_destroy_lock(t)
  \/ linkedlist_destroy_invalidate(t)
  \/ linkedlist_add_entry(t)
  \/ linkedlist_add_find(t)
  \/ linkedlist_add_link(t)
  \/ linkedlist_remove_entry(t)
  \/ linkedlist_remove_find(t)
  \/ linkedlist_remove_unlink(t)
  \/ linkedlist_remove_dealloc(t)
  \/ linkedlist_remove_free_value(t)
  \/ linkedlist_remove_free_item(t)
  \/ linkedlist_get_entry(t)
  \/ linkedlist_get_copy(t)
  \/ linkedlist_update_entry(t)
  \/ linkedlist_update_find(t)
  \/ linkedlist_update_dealloc(t)
  \/ linkedlist_update_copy(t)
  \/ linkedlist_length_entry(t)
  \/ linkedlist_length_count(t)
  \/ pthread_mutex_lock(t)
  \/ pthread_mutex_unlock(t)
  \/ Return(t)

LifeNext == \E t \in Threads : LifeStep(t)

\* One thread takes a list through its lifetime: linkedlist_initialize(), the
\* calls on the list, linkedlist_destroy(), in any order and number.
LifeSpec == LifeInit /\ [][LifeNext]_vars

MutexInit ==
  /\ head = NULL /\ item_size = 0 /\ copy = NULL /\ dealloc = NULL
  /\ lock = UNSET
  /\ InitRest
  /\ budget = [t \in Threads |-> MutexBudget]

MutexStep(t) ==
  \/ MutexCall(t)
  \/ linkedlist_mutex_initialize(t)
  \/ linkedlist_mutex_lock_entry(t)
  \/ linkedlist_mutex_lock_acquire(t)
  \/ linkedlist_mutex_unlock(t)
  \/ linkedlist_mutex_destroy(t)
  \/ Return(t)

MutexNext == \E t \in Threads : MutexStep(t)

\* Several threads call into the lock layer on one handle.
MutexSpec == MutexInit /\ [][MutexNext]_vars

FailNext ==
  \/ Next
  \/ \E t \in Threads : pthread_mutex_lock_fails(t)

\* One thread calls into one initialized list; malloc and pthread_mutex_lock
\* may fail.
FailSpec == SeqInit /\ [][FailNext]_vars

IsoNext ==
  \/ Next
  \/ \E t \in Threads : CallerChangesValue(t)
  \/ \E t \in Threads : CallerChangesCopy(t)

\* One thread calls into one initialized list and, between its calls, writes
\* to the values it passed and to the copies it received.
IsoSpec == SeqInit /\ [][IsoNext]_vars

HookNext ==
  \/ Next
  \/ \E t \in Threads : linkedlist_add_entry_copy_fails(t)
  \/ \E t \in Threads : linkedlist_get_copy_fails(t)
  \/ \E t \in Threads : linkedlist_update_copy_fails(t)

\* One thread calls into one initialized list whose custom copy hook may
\* return NULL.
HookSpec == SeqInit /\ [][HookNext]_vars

\* The calls of the threads that share a list through its lifetime.
RaceOps ==
  GoodCalls
  \cup {c \in InitializeCalls : c.list # NULL /\ c.size # 0}
  \cup {c \in DestroyCalls : c.list # NULL}

\* A call of another thread that has been made and has not returned.
InFlight(t) == \E u \in Threads \ {t} : pc[u] # "idle"

\* A linkedlist_destroy() of another thread that has not returned.
DestroyInFlight(t) ==
  \E u \in Threads \ {t} : pc[u] # "idle" /\ call[u].op = "destroy"

\* A thread calls into the list it shares.  linkedlist_initialize() comes
\* before every other call and is made while no other call is in flight;
\* linkedlist_destroy() is made at any moment, and raced records that it
\* overlapped another call.
RaceCall(t) ==
  /\ pc[t] = "idle"
  /\ budget[t] > 0
  /\ \E c \in RaceOps :
       /\ lock = UNSET => c.op = "initialize"
       /\ c.op = "initialize" => ~InFlight(t)
       /\ \A u \in Threads \ {t} : pc[u] # "idle" => call[u].op # "initialize"
       /\ call' = [call EXCEPT ![t] = c]
       /\ raced' = (raced \/ (c.op = "destroy" /\ InFlight(t))
                          \/ DestroyInFlight(t))
  /\ budget' = [budget EXCEPT ![t] = @ - 1]
  /\ pc' = [pc EXCEPT ![t] = "entry"]
  /\ pre' = IF InFlight(t) THEN NoObs ELSE Observed
  /\ UNCHANGED <<listvars, heapvars, lock, item, current, status, out, fault,
                 nadds, nremoves, S, exp, log, orphans>>
  /\ UNCHANGED datavars
  /\ UNCHANGED mutexvars

\* The structure before linkedlist_initialize(): zeroed memory.
RaceInit ==
  /\ head = NULL
  /\ item_size = 0
  /\ copy = NULL
  /\ dealloc = NULL
  /\ lock = UNSET
  /\ InitRest
  /\ budget = [t \in Threads |-> IF t = 1 THEN RaceCalls ELSE 1]

\* The steps of a thread.  A read or write of freed memory and a use of the
\* destroyed mutex are undefined behaviour: nothing is said about the program
\* after them, and no step is taken.
RaceStep(t) ==
  \/ ~fault /\ RaceCall(t)
  \/ ~fault /\ linkedlist_initialize_call(t)
  \/ ~fault /\ linkedlist_destroy_entry(t)
  \/ ~fault /\ linkedlist_destroy_loop(t)
  \/ ~fault /\ linkedlist_destroy_lock(t)
  \/ ~fault /\ linkedlist_destroy_invalidate(t)
  \/ ~fault /\ linkedlist_add_entry(t)
  \/ ~fault /\ linkedlist_add_find(t)
  \/ ~fault /\ linkedlist_add_link(t)
  \/ ~fault /\ linkedlist_remove_entry(t)
  \/ ~fault /\ linkedlist_remove_find(t)
  \/ ~fault /\ linkedlist_remove_unlink(t)
  \/ ~fault /\ linkedlist_remove_dealloc(t)
  \/ ~fault /\ linkedlist_remove_free_value(t)
  \/ ~fault /\ linkedlist_remove_free_item(t)
  \/ ~fault /\ linkedlist_get_entry(t)
  \/ ~fault /\ linkedlist_get_copy(t)
  \/ ~fault /\ linkedlist_update_entry(t)
  \/ ~fault /\ linkedlist_update_find(t)
  \/ ~fault /\ linkedlist_update_dealloc(t)
  \/ ~fault /\ linkedlist_update_copy(t)
  \/ ~fault /\ linkedlist_length_entry(t)
  \/ ~fault /\ linkedlist_length_count(t)
  \/ ~fault /\ pthread_mutex_lock(t)
  \/ ~fault /\ pthread_mutex_lock_destroyed(t)
  \/ ~fault /\ pthread_mutex_unlock(t)
  \/ ~fault /\ Return(t)

RaceNext == \E t \in Threads : RaceStep(t)

\* The threads share one list from linkedlist_initialize() to
\* linkedlist_destroy() and beyond; linkedlist_destroy() may overlap the
\* calls of the other threads.
RaceSpec == RaceInit /\ [][RaceNext]_vars

(***************************************************************************)
(* Properties.                                                             *)
(***************************************************************************)
Quiet     == \A t \in Threads : pc[t] = "idle"
Completed == \A t \in Threads : pc[t] = "idle" /\ budget[t] = 0
Returning(t, o) == pc[t] = "ret" /\ call[t].op = o /\ ValidArgs(call[t])

\* The positions between the acquisition and the release of the lock.
InCritical(t) ==
  pc[t] \in {"add_find", "add_link", "remove_find", "remove_unlink",
             "get_copy", "update_find", "update_dealloc", "update_copy",
             "length_count", "unlock"}

\* The positions of linkedlist_remove() from the unlinking of the node on.
Unlinked(t) ==
  /\ call[t].op = "remove"
  /\ item[t] # NULL
  /\ pc[t] \in {"unlock", "remove_free", "remove_free_value", "remove_free_item"}

\* C1: run by one thread, the list refines the abstract sequence S: whenever
\* no call is inside the list the values of the nodes reachable from head, in
\* chain order, are S; a get with usable arguments succeeds exactly when its
\* index is below Len(S) and then returns S[index]; length returns Len(S).
C1_RefinesSequence ==
  /\ (\A t \in Threads : pc[t] \in {"idle", "entry", "lock", "ret"})
        => ChainValues = S
  /\ \A t \in Threads :
       /\ Returning(t, "get") =>
            /\ (status[t] = LINKEDLIST_SUCCESS) <=> (call[t].index < Len(S))
            /\ status[t] = LINKEDLIST_SUCCESS => out[t] = S[call[t].index + 1]
            /\ status[t] # LINKEDLIST_SUCCESS => status[t] = ERANGE
       /\ Returning(t, "length") =>
            status[t] = LINKEDLIST_SUCCESS /\ out[t] = Len(S)

\* add 1, add 2, remove(0), get(0) returns 2.
C1_Witness ==
  \E t \in Threads :
    /\ Returning(t, "get") /\ call[t].index = 0
    /\ status[t] = LINKEDLIST_SUCCESS /\ out[t] = 2
    /\ nadds = 2 /\ nremoves = 1 /\ S = <<2>>

AddValues == {AddValue(t, k) : t \in Threads, k \in 1..MaxCalls}

\* The indices at which get returns the value v.
IndicesOf(v) ==
  {i \in 0..MaxNodes :
     linkedlist_get_result(head, node_next, node_value, copy, i)
       = [status |-> LINKEDLIST_SUCCESS, out |-> v]}

C3_MutualExclusion ==
  /\ \A t, u \in Threads : InCritical(t) /\ InCritical(u) => t = u
  /\ \A t \in Threads : InCritical(t) <=> lock = t

\* One thread unlinks a node while another waits for the lock.
C3_Witness ==
  \E t, u \in Threads :
    t # u /\ pc[t] = "remove_unlink" /\ pc[u] = "lock" /\ lock = t

\* C4: every call returns what the abstract sequence answered at one instant
\* between its invocation and its return (for a call that takes the lock,
\* while it holds the lock), and whenever the lock is free the list holds the
\* abstract sequence.
C4_Linearizable ==
  /\ lock = NULL => ChainValues = S
  /\ \A t \in Threads :
       /\ pc[t] = "ret" =>
            /\ status[t] = exp[t].status
            /\ (status[t] = LINKEDLIST_SUCCESS /\ call[t].op \in {"get", "length"})
                  => out[t] = exp[t].out
       /\ pc[t] \in {"idle", "entry", "lock"} => exp[t] = NoResult
       /\ pc[t] = "unlock" => (exp[t] # NoResult /\ lock = t)

\* A get returns a value that another thread replaced before the get returned.
C4_Witness ==
  \E t \in Threads :
    /\ Returning(t, "get") /\ status[t] = LINKEDLIST_SUCCESS
    /\ call[t].index = 0 /\ Len(S) = 1 /\ S[1] # out[t]

\* The nodes a thread will still read, write, link or free through its locals.
LiveRefs(u) ==
  (IF (pc[u] \in {"lock", "add_find", "add_link"} /\ call[u].op = "add")
      \/ pc[u] \in {"update_dealloc", "update_copy"}
      \/ Unlinked(u)
   THEN {item[u]} ELSE {})
  \cup
  (IF pc[u] = "add_link"
      \/ (pc[u] = "remove_unlink" /\ call[u].index # 0)
   THEN {current[u]} \ {NULL} ELSE {})

\* C5: the node remove unlinked is freed after the lock was released; from
\* the unlinking on it is not reachable from head and no other thread holds a
\* reference to it; no freed node is reachable from head or is used by a
\* thread under the lock; no freed or unallocated memory is accessed and
\* nothing is freed twice.
C5_SafeDeallocation ==
  /\ ~fault
  /\ \A t \in Threads :
       /\ pc[t] \in {"remove_free", "remove_free_value", "remove_free_item"}
            => lock # t
       /\ Unlinked(t) =>
            /\ item[t] \notin SeqToSet(Chain)
            /\ \A u \in Threads \ {t} : item[t] \notin LiveRefs(u)
       /\ InCritical(t) => \A n \in LiveRefs(t) : mem[n] = "live"
  /\ \A n \in SeqToSet(Chain) : mem[n] = "live" /\ vbuf[n] = "live"

\* A thread frees the node it unlinked while another thread reads the chain.
C5_Witness ==
  \E t, u \in Threads :
    /\ t # u
    /\ pc[t] = "remove_free_item" /\ vbuf[item[t]] = "freed"
    /\ pc[u] = "get_copy" /\ head # NULL

\* C6: under fair scheduling every call that was issued returns; in no state
\* with a call in flight are all threads blocked; the lock is free when no
\* call is in flight.
C6_EveryCallReturns ==
  /\ \A t \in Threads : (pc[t] # "idle") ~> (pc[t] = "idle")
  /\ [](Quiet => lock = NULL)
  /\ [](~Quiet => \E t \in Threads : ENABLED Progress(t))

\* A thread is blocked in pthread_mutex_lock while another holds the lock.
C6_Witness ==
  \E t, u \in Threads : t # u /\ pc[t] = "lock" /\ lock = u

\* C7: length returns the number of add calls that returned success minus
\* the number of remove calls that returned success, which is the number of
\* nodes reachable from head; get, update, length and every failed call leave
\* it as it was.
C7_LengthIsAddsMinusRemoves ==
  /\ Quiet => linkedlist_length_result(head, node_next).out = nadds - nremoves
  /\ \A t \in Threads :
       /\ Returning(t, "length") =>
            /\ status[t] = LINKEDLIST_SUCCESS
            /\ out[t] = nadds - nremoves
            /\ out[t] = Len(Chain)
       /\ (pc[t] = "ret" /\ pre.len # NONE
           /\ (call[t].op \in {"get", "update", "length"}
               \/ status[t] # LINKEDLIST_SUCCESS))
            => linkedlist_length_result(head, node_next).out = pre.len

\* add, add, remove, length returns 1.
C7_Witness ==
  \E t \in Threads :
    Returning(t, "length") /\ out[t] = 1 /\ nadds = 2 /\ nremoves = 1

\* The list after an add of v to a list that answered as pre.
Appended(v) ==
  /\ Observed.len = pre.len + 1
  /\ Observed.get[pre.len] = [status |-> LINKEDLIST_SUCCESS, out |-> v]
  /\ \A j \in 0..MaxNodes : j < pre.len => Observed.get[j] = pre.get[j]

C9_RemoveShiftsDown ==
  \A t \in Threads :
    (Returning(t, "remove") /\ pre.len # NONE /\ call[t].index < pre.len) =>
      /\ status[t] = LINKEDLIST_SUCCESS
      /\ Observed.len = pre.len - 1
      /\ \A j \in 0..MaxNodes :
           /\ j < call[t].index => Observed.get[j] = pre.get[j]
           /\ (call[t].index <= j /\ j < pre.len - 1)
                => Observed.get[j] = pre.get[j + 1]
      /\ Observed.get[pre.len - 1].status = ERANGE

\* The middle one of three items with different neighbours was removed.
C9_Witness ==
  \E t \in Threads :
    /\ Returning(t, "remove") /\ status[t] = LINKEDLIST_SUCCESS
    /\ pre.len = 3 /\ call[t].index = 1
    /\ pre.get[0].out # pre.get[2].out

\* C10: update(i, v2) with i below the length n and a non-null v2 returns
\* success, get(i) then returns v2, the length is still n, the chain holds
\* the same nodes in the same order and get(j) for j # i returns what it
\* returned before.
C10_UpdateReplaces ==
  \A t \in Threads :
    (Returning(t, "update") /\ pre.len # NONE /\ call[t].index < pre.len) =>
      /\ status[t] = LINKEDLIST_SUCCESS
      /\ Observed.get[call[t].index]
           = [status |-> LINKEDLIST_SUCCESS, out |-> call[t].value]
      /\ Observed.len = pre.len
      /\ Observed.chain = pre.chain
      /\ \A j \in 0..MaxNodes :
           j # call[t].index => Observed.get[j] = pre.get[j]

\* The middle one of three items got a value it did not have.
C10_Witness ==
  \E t \in Threads :
    /\ Returning(t, "update") /\ status[t] = LINKEDLIST_SUCCESS
    /\ pre.len = 3 /\ call[t].index = 1
    /\ pre.get[1].out # call[t].value

(***************************************************************************)
(* Errors, and the lifetime of a list.                                     *)
(***************************************************************************)
ListOps == {"add", "remove", "get", "update", "length"}

\* The events of kind e in the log of the current call of t.
Did(t, e) == {i \in 1..Len(log[t]) : log[t][i].ev = e}

\* Nothing of the list or of the nodes differs from what it was when the
\* current call was issued.
Untouched ==
  /\ Observed.list = pre.list
  /\ Observed.heap = pre.heap
  /\ Observed.chain = pre.chain
  /\ Observed.get = pre.get

\* C11: on an initialized list of length n, with usable arguments, get,
\* update and remove of index i return LINKEDLIST_SUCCESS when i < n and
\* ERANGE when i >= n, i = n and n = 0 included, and never EINVAL.
C11_IndexRange ==
  \A t \in Threads :
    (pc[t] = "ret" /\ call[t].op \in {"get", "update", "remove"}
     /\ ValidArgs(call[t]) /\ pre.len # NONE) =>
      status[t] = IF call[t].index < pre.len
                  THEN LINKEDLIST_SUCCESS ELSE ERANGE

\* remove(2) on a list of two items returned ERANGE.
C11_Witness ==
  \E t \in Threads :
    /\ Returning(t, "remove") /\ pre.len = 2 /\ call[t].index = 2
    /\ status[t] = ERANGE

\* C12: a get, update or remove that returns ERANGE leaves the list as it
\* was: the same nodes in the same order with the same values, none unlinked
\* or freed, and it called neither the copy hook nor the dealloc hook.
C12_OutOfRangeChangesNothing ==
  \A t \in Threads :
    (pc[t] = "ret" /\ call[t].op \in {"get", "update", "remove"}
     /\ status[t] = ERANGE /\ pre.len # NONE) =>
      /\ Untouched
      /\ \A e \in {"copy", "dealloc", "unlink", "free_value", "free_item"} :
           Did(t, e) = {}
      /\ out[t] = UNSET

\* A remove behind the end of a list of two items with a dealloc hook
\* returned ERANGE.
C12_Witness ==
  \E t \in Threads :
    /\ Returning(t, "remove") /\ status[t] = ERANGE
    /\ pre.len = 2 /\ call[t].index = 3 /\ dealloc # NULL

\* The list a call was issued on was destroyed by linkedlist_destroy().
WasDestroyed == pre.len # NONE /\ pre.list.lock = DESTROYED

\* C13: add, remove, get, update and length on a NULL list or on a list that
\* was destroyed return EINVAL whatever their other arguments are, do not go
\* beyond their checks, do not take the lock and touch neither the list nor a
\* node; linkedlist_initialize() on a NULL list returns EINVAL.
C13_NullOrDestroyedList ==
  \A t \in Threads :
    /\ (call[t].op \in ListOps /\ pre.len # NONE
        /\ (call[t].list = NULL \/ WasDestroyed)) =>
         /\ pc[t] \in {"entry", "ret"}
         /\ log[t] = <<>>
         /\ Untouched
         /\ pc[t] = "ret" => status[t] = EINVAL
    /\ (pc[t] = "ret" /\ call[t].op = "initialize" /\ call[t].list = NULL) =>
         status[t] = EINVAL

\* An add of a value to a list that was destroyed with an item in it
\* returned EINVAL.
C13_Witness ==
  \E t \in Threads :
    /\ pc[t] = "ret" /\ call[t].op = "add" /\ call[t].list # NULL
    /\ call[t].value # NULL /\ WasDestroyed /\ status[t] = EINVAL
    /\ \E n \in Nodes : mem[n] = "freed"

\* C14: on an initialized list, add and update with a NULL value and get and
\* length with a NULL buffer return EINVAL; the check comes before the lock
\* and before the index is looked at, so that an index out of range makes no
\* difference, and the list is left as it was.
C14_NullArgument ==
  \A t \in Threads :
    (call[t].op \in ListOps /\ call[t].list # NULL /\ ~ValidArgs(call[t])
     /\ pre.len # NONE) =>
       /\ pc[t] \in {"entry", "ret"}
       /\ log[t] = <<>>
       /\ Untouched
       /\ pc[t] = "ret" => (status[t] = EINVAL /\ out[t] = UNSET)

\* A get with a NULL buffer of an index out of range on an empty list
\* returned EINVAL, and so did an update with a NULL value.
C14_Witness ==
  \E t \in Threads :
    /\ pc[t] = "ret" /\ call[t].op = "get" /\ call[t].list # NULL
    /\ call[t].buffer = NULL /\ call[t].index = MaxIndex
    /\ pre.len = 0 /\ status[t] = EINVAL

\* C15: after a linkedlist_initialize() with an item size above 0 that
\* returned success, head is NULL, the item size is the one given, the copy
\* hook is the one given or memcpy when none was given, the dealloc hook is
\* the one given or NULL, the lock is constructed and free; length then
\* returns 0 and get, update and remove of any index return ERANGE.
C15_InitializeEmpties ==
  \A t \in Threads :
    /\ (pc[t] = "ret" /\ call[t].op = "initialize"
        /\ status[t] = LINKEDLIST_SUCCESS) =>
         /\ call[t].list # NULL /\ call[t].size > 0
         /\ head = NULL
         /\ item_size = call[t].size
         /\ copy = IF call[t].copy # NULL THEN call[t].copy ELSE memcpy
         /\ dealloc = call[t].dealloc
         /\ lock = NULL /\ Did(t, "mutex_init") # {}
         /\ linkedlist_initialized(call[t].list, item_size, copy)
         /\ Observed.len = 0
         /\ \A i \in ObsIndices :
              /\ Observed.get[i].status = ERANGE
              /\ linkedlist_update_search(head, node_next, i) = NULL
    /\ (pc[t] = "ret" /\ call[t].op \in ListOps /\ ValidArgs(call[t])
        /\ pre.len # NONE /\ pre.list.lock = NULL /\ pre.list.head = NULL) =>
         /\ call[t].op = "length" =>
              (status[t] = LINKEDLIST_SUCCESS /\ out[t] = 0)
         /\ call[t].op \in {"get", "update", "remove"} => status[t] = ERANGE

\* A list that held an item was initialized again without a copy function.
C15_Witness ==
  \E t \in Threads :
    /\ pc[t] = "ret" /\ call[t].op = "initialize"
    /\ status[t] = LINKEDLIST_SUCCESS /\ call[t].copy = NULL
    /\ pre.list.head # NULL /\ pre.list.lock = NULL

\* C16: linkedlist_initialize() with a NULL list or an item size of 0
\* returns EINVAL, constructs no lock and writes no member of the list: a
\* list that was initialized before keeps its items and its state.
C16_InitializeRejects ==
  \A t \in Threads :
    (pc[t] = "ret" /\ call[t].op = "initialize"
     /\ (call[t].list = NULL \/ call[t].size = 0)) =>
       /\ status[t] = EINVAL
       /\ log[t] = <<>>
       /\ pre.len # NONE => Untouched

\* An initialize with item size 0 on a list that holds an item returned
\* EINVAL.
C16_Witness ==
  \E t \in Threads :
    /\ pc[t] = "ret" /\ call[t].op = "initialize" /\ call[t].list # NULL
    /\ call[t].size = 0 /\ status[t] = EINVAL
    /\ pre.len = 1 /\ pre.list.lock = NULL /\ Observed.len = 1

\* C17: after linkedlist_destroy() on an initialized list head, the copy
\* hook and the dealloc hook are NULL, the item size is what it was, every
\* node that was in the chain and its value are freed and the lock is
\* destroyed; add, remove, get, update and length on the destroyed list
\* return EINVAL until the list is initialized again.
C17_DestroyedState ==
  \A t \in Threads :
    /\ (pc[t] = "ret" /\ call[t].op = "destroy" /\ call[t].list # NULL
        /\ pre.len # NONE /\ pre.list.lock = NULL) =>
         /\ head = NULL /\ copy = NULL /\ dealloc = NULL
         /\ item_size = pre.list.item_size
         /\ lock = DESTROYED
         /\ \A n \in SeqToSet(pre.chain) : mem[n] = "freed" /\ vbuf[n] = "freed"
         /\ ~linkedlist_initialized(call[t].list, item_size, copy)
         /\ ~fault
    /\ (pc[t] = "ret" /\ call[t].op \in ListOps /\ WasDestroyed) =>
         status[t] = EINVAL
    /\ (lock = DESTROYED /\ \A u \in Threads : pc[u] # "destroy_invalidate")
         => (head = NULL /\ copy = NULL /\ dealloc = NULL)

\* A list of two items was destroyed.
C17_Witness ==
  \E t \in Threads :
    /\ pc[t] = "ret" /\ call[t].op = "destroy" /\ call[t].list # NULL
    /\ pre.list.lock = NULL /\ Len(pre.chain) = 2 /\ lock = DESTROYED

\* C18: linkedlist_destroy() on a destroyed list, or on a NULL list, changes
\* nothing: it frees no node, does not call the dealloc hook, does not tear
\* the lock down a second time and the list stays destroyed.
C18_DestroyIdempotent ==
  \A t \in Threads :
    (pc[t] = "ret" /\ call[t].op = "destroy" /\ pre.len # NONE
     /\ (call[t].list = NULL \/ pre.list.lock = DESTROYED)) =>
       /\ log[t] = <<>>
       /\ Untouched
       /\ ~fault

\* The nodes a thread holds that are not, or no more, in the chain.
Held(t) ==
  (IF (call[t].op = "add" /\ pc[t] \in {"lock", "add_find", "add_link"})
      \/ Unlinked(t)
   THEN {item[t]} ELSE {})
  \cup
  (IF pc[t] = "destroy_loop" THEN SeqToSet(Path(node_next, current[t], Fuel))
   ELSE {})

\* In the log of the current call of t the value of a node is handed to the
\* dealloc hook once, right before it is freed or overwritten, when the list
\* has a dealloc hook, and never when it has none; a value and a node are
\* freed once, the value before the node.
DeallocOrder(t, de) ==
  /\ \A i \in Did(t, "free_value") \cup
              (IF call[t].op = "update" THEN Did(t, "copy") ELSE {}) :
       IF de # NULL
       THEN i > 1 /\ log[t][i - 1] = Event("dealloc", log[t][i].node)
       ELSE Did(t, "dealloc") = {}
  /\ \A i \in Did(t, "dealloc") :
       IF i = Len(log[t])
       THEN pc[t] \in {"update_copy", "remove_free_value"}
       ELSE /\ log[t][i + 1].node = log[t][i].node
            /\ log[t][i + 1].ev \in {"free_value", "copy"}
  /\ \A i \in Did(t, "free_item") :
       /\ \A j \in Did(t, "free_item") : log[t][j].node = log[t][i].node => j = i
       /\ call[t].op \in {"remove", "destroy"} =>
            (i > 1 /\ log[t][i - 1] = Event("free_value", log[t][i].node))

\* C19: over a lifetime run by one thread no node leaks and none is freed
\* twice: a node that is allocated is in the chain or in the hands of the
\* call that allocated or unlinked it, a value buffer lives as long as its
\* node, after linkedlist_destroy() no node the list held is allocated, and
\* the dealloc hook, when set, is called once on every value copied into the
\* list, before the value is freed or overwritten, and never on a value it
\* was called on already.
C19_NoLeakNoDoubleFree ==
  /\ ~fault
  /\ \A n \in Nodes :
       /\ mem[n] = "live" =>
            \/ n \in SeqToSet(Chain)
            \/ n \in orphans
            \/ \E t \in Threads : n \in Held(t)
       /\ vbuf[n] = "live" => mem[n] = "live"
       /\ (mem[n] = "live" /\ n \in SeqToSet(Chain) /\ lock = NULL)
            => node_value[n] \in Values
  /\ \A t \in Threads :
       /\ (pc[t] = "ret" /\ call[t].op = "destroy" /\ call[t].list # NULL) =>
            \A n \in Nodes \ orphans : mem[n] # "live" /\ vbuf[n] # "live"
       /\ pre.len # NONE => DeallocOrder(t, pre.list.dealloc)

\* With a dealloc hook: two adds, an update, a remove, then the destroy of
\* the list of one item; both nodes are freed.
C19_Witness ==
  \E t \in Threads :
    /\ pc[t] = "ret" /\ call[t].op = "destroy"
    /\ pre.list.dealloc # NULL /\ Len(pre.chain) = 1
    /\ nadds = 2 /\ nremoves = 1
    /\ Did(t, "dealloc") # {}
    /\ \A n \in {1, 2} : mem[n] = "freed" /\ vbuf[n] = "freed"

\* C20: values are isolated from the caller.  With the default byte copy or a
\* deep-copying hook, whatever the caller writes to the value it passed to
\* add or update, or to the copy get gave it, the list holds the values that
\* were added and updated and get answers them; no two nodes keep their
\* values in the same memory, and no node keeps its value in memory of the
\* caller (the value passed in, the output buffer, the copy handed out).
CallerData == {ValueData(t) : t \in Threads} \cup {BufferData(t) : t \in Threads}
                \cup ({out_data[t] : t \in Threads} \ {NULL})

C20_ValuesIsolated ==
  /\ (\A t \in Threads : pc[t] \in {"idle", "entry", "lock", "ret"}) =>
       /\ ChainValues = S
       /\ \A i \in 0..(Len(S) - 1) :
            Observed.get[i] = [status |-> LINKEDLIST_SUCCESS, out |-> S[i + 1]]
  /\ \A n \in SeqToSet(Chain) :
       /\ node_data[n] \notin CallerData
       /\ \A m \in SeqToSet(Chain) \ {n} : node_data[m] # node_data[n]
  /\ \A t \in Threads :
       (pc[t] = "ret" /\ call[t].op = "get" /\ status[t] = LINKEDLIST_SUCCESS)
         => out_data[t] \notin {node_data[n] : n \in SeqToSet(Chain)}

\* The caller changed the copy a deep-copying get gave it, after it had
\* changed the value it added: the list still holds the two values added.
C20_Witness ==
  \E t \in Threads :
    /\ pc[t] = "ret" /\ call[t].op = "get" /\ status[t] = LINKEDLIST_SUCCESS
    /\ copy = bytebuffer_copy
    /\ Len(S) = 2 /\ S[1] # S[2]
    /\ out[t] # S[call[t].index + 1]
    /\ Observed.get[call[t].index].out = S[call[t].index + 1]

\* C21: an add that fails, because the item or its value cannot be
\* allocated or because the lock cannot be taken, returns ENOMEM or the
\* status of the lock, has freed what it allocated and linked nothing: the
\* list, the chain and every node are what they were, and get and length
\* answer what they answered before the call; the list keeps following the
\* abstract sequence in the calls after it.
C21_FailedAddChangesNothing ==
  /\ (\A t \in Threads : pc[t] \in {"idle", "entry", "ret"}) =>
       /\ ChainValues = S
       /\ \A n \in Nodes : mem[n] = "live" <=> n \in SeqToSet(Chain)
       /\ \A n \in Nodes : vbuf[n] = "live" <=> mem[n] = "live"
  /\ \A t \in Threads :
       (pc[t] = "ret" /\ call[t].op = "add" /\ ValidArgs(call[t])
        /\ status[t] # LINKEDLIST_SUCCESS /\ pre.len # NONE) =>
         /\ status[t] \in {ENOMEM, EAGAIN}
         /\ Observed.list = pre.list
         /\ Observed.chain = pre.chain
         /\ Observed.len = pre.len
         /\ Observed.get = pre.get
         /\ \A n \in SeqToSet(pre.chain) :
              /\ node_next[n] = pre.heap.next[n]
              /\ node_value[n] = pre.heap.value[n]
              /\ mem[n] = "live" /\ vbuf[n] = "live"
         /\ Did(t, "link") = {}
         /\ status[t] = EAGAIN =>
              /\ Did(t, "free_value") # {} /\ Did(t, "free_item") # {}
              /\ Did(t, "dealloc") # {} <=> dealloc # NULL

\* With a dealloc hook and one item in the list, an add that could not take
\* the lock returned the status of the lock.
C21_Witness ==
  \E t \in Threads :
    /\ pc[t] = "ret" /\ call[t].op = "add" /\ status[t] = EAGAIN
    /\ dealloc # NULL /\ Len(S) = 1
    /\ Did(t, "dealloc") # {}

\* C22: between a linkedlist_initialize() that succeeded and the next
\* linkedlist_destroy() the item size, the copy hook and the dealloc hook of
\* the list do not change: no step of add, remove, get, update or length
\* writes them, so that every copy and every dealloc of that time is made
\* with the hooks and the size the list was initialized with.
HooksKept ==
  \A t \in Threads :
    (call[t].op \in ListOps /\ pre.len # NONE /\ pre.list.lock = NULL) =>
      /\ item_size = pre.list.item_size /\ item_size > 0
      /\ copy = pre.list.copy /\ copy # NULL
      /\ dealloc = pre.list.dealloc

C22_HooksImmutable ==
  /\ []HooksKept
  /\ [][(\A t \in Threads : call[t].op \notin {"initialize", "destroy"})
          => UNCHANGED <<item_size, copy, dealloc>>]_vars

\* An update with the hooks of the ByteBuffer example returned success: it
\* called the dealloc hook and the copy hook, and the list has both still.
C22_Witness ==
  \E t \in Threads :
    /\ pc[t] = "ret" /\ call[t].op = "update"
    /\ status[t] = LINKEDLIST_SUCCESS
    /\ Did(t, "dealloc") # {} /\ Did(t, "copy") # {}
    /\ copy = bytebuffer_copy /\ dealloc = bytebuffer_dealloc
    /\ pre.list.copy = bytebuffer_copy

\* The native lock the handle pointed to when the current call was issued was
\* destroyed before.
\* State of the native lock the handle pointed to when the current call of t
\* was issued.
WasState(t) ==
  IF call[t].at.mutex \in Natives
  THEN call[t].at.native[call[t].at.mutex].st ELSE "none"

HandleWasDestroyed(t) ==
  call[t].at.mutex # NULL /\ call[t].at.native[call[t].at.mutex].destroys > 0

\* C23: linkedlist_mutex_lock() and linkedlist_mutex_unlock() return EINVAL
\* without a call of the native lock, and so without waiting, when the
\* pointer is NULL, when the handle is empty because it was never
\* initialized, and when it was initialized and then destroyed;
\* linkedlist_mutex_initialize() returns EINVAL for a NULL pointer and does
\* nothing.
C23_MutexRejects ==
  \A t \in Threads :
    /\ (pc[t] = "ret" /\ call[t].op \in {"mutex_lock", "mutex_unlock"}
        /\ (call[t].lock = NULL \/ call[t].at.mutex = NULL
            \/ HandleWasDestroyed(t))) =>
         /\ status[t] = EINVAL
         /\ log[t] = <<>>
         /\ mutex = call[t].at.mutex
    /\ pc[t] = "mutex_acquire" => (call[t].lock # NULL /\ mutex # NULL)
    /\ (pc[t] = "ret" /\ call[t].op = "mutex_initialize"
        /\ call[t].lock = NULL) =>
         /\ status[t] = EINVAL
         /\ log[t] = <<>>
         /\ mutex = call[t].at.mutex

\* An unlock of a handle that was initialized and destroyed returned EINVAL.
C23_Witness ==
  \E t \in Threads :
    /\ pc[t] = "ret" /\ call[t].op = "mutex_unlock" /\ call[t].lock = HANDLE
    /\ status[t] = EINVAL
    /\ mutex = NULL /\ ~fault
    /\ \E o \in Natives : native[o].destroys = 1

\* C24: a linkedlist_mutex_initialize() that returned success left a handle
\* that is not empty and a native lock that is ready and not held; a lock of
\* a ready native lock does not wait and returns success with the caller as
\* the holder; the unlock of the holder returns success and leaves the native
\* lock ready for the next lock.
C24_MutexReady ==
  \A t \in Threads :
    /\ (pc[t] = "ret" /\ call[t].op = "mutex_initialize"
        /\ status[t] = LINKEDLIST_MUTEX_SUCCESS) =>
         /\ mutex \in Natives
         /\ native[mutex].st = "ready" /\ native[mutex].owner = NULL
    /\ (pc[t] = "mutex_acquire" /\ NativeState(mutex) = "ready") =>
         ENABLED linkedlist_mutex_lock_acquire(t)
    /\ (pc[t] = "ret" /\ call[t].op = "mutex_lock" /\ ~fault
        /\ call[t].lock # NULL
        /\ WasState(t) \in {"ready", "locked"}) =>
         /\ status[t] = LINKEDLIST_MUTEX_SUCCESS
         /\ native[mutex].st = "locked" /\ native[mutex].owner = t
    /\ (pc[t] = "ret" /\ call[t].op = "mutex_unlock" /\ ~fault
        /\ call[t].lock # NULL
        /\ WasState(t) = "locked") =>
         /\ status[t] = LINKEDLIST_MUTEX_SUCCESS
         /\ call[t].at.native[call[t].at.mutex].owner = t
         /\ native[mutex].owner # t
         /\ (\A u \in Threads \ {t} : budget[u] = MutexBudget) =>
              native[mutex].st = "ready"

\* The thread that initialized the handle and locked it unlocked it: the
\* native lock is ready again.
C24_Witness ==
  \E t \in Threads :
    /\ pc[t] = "ret" /\ call[t].op = "mutex_unlock"
    /\ status[t] = LINKEDLIST_MUTEX_SUCCESS /\ ~fault
    /\ budget[t] = MutexBudget - 3
    /\ native[mutex].st = "ready"
    /\ \A u \in Threads \ {t} : budget[u] = MutexBudget

\* C25: linkedlist_mutex_destroy() on an initialized handle destroys and
\* frees the native lock and empties the handle; on an empty handle and on a
\* NULL pointer it does nothing.  A native lock of an initialized handle is
\* so destroyed and freed once, however often destroy is called.
C25_MutexDestroy ==
  /\ \A t \in Threads :
       /\ (pc[t] = "ret" /\ call[t].op = "mutex_destroy" /\ call[t].lock # NULL
           /\ WasState(t) = "ready") =>
            /\ mutex = NULL
            /\ native = [call[t].at.native EXCEPT ![call[t].at.mutex] =
                           [st |-> "freed", owner |-> NULL,
                            destroys |-> 1, frees |-> 1]]
       /\ (pc[t] = "ret" /\ call[t].op = "mutex_destroy"
           /\ (call[t].lock = NULL \/ call[t].at.mutex = NULL)) =>
            /\ log[t] = <<>>
            /\ mutex = call[t].at.mutex
            /\ call[t].lock # NULL => native = call[t].at.native
  /\ ~fault => \A o \in Natives : native[o].destroys <= 1 /\ native[o].frees <= 1

\* The handle was initialized, destroyed and destroyed again.
C25_Witness ==
  \E t \in Threads :
    /\ pc[t] = "ret" /\ call[t].op = "mutex_destroy" /\ call[t].lock = HANDLE
    /\ call[t].at.mutex = NULL /\ ~fault
    /\ \E o \in Natives : call[t].at.native[o].destroys = 1
    /\ native = call[t].at.native

\* The number of events of kind e in the log of the current call of t.
Times(t, e) == Cardinality(Did(t, e))

\* The kinds of the events of the log of the current call of t, in order.
Kinds(t) == [i \in 1..Len(log[t]) |-> log[t][i].ev]

\* C27: an add, remove, get, update or length that took the lock released it
\* once before it returned, on the ERANGE paths too; a call that returns
\* EINVAL did not take the lock, nor did an add that returns ENOMEM; a thread
\* that is not inside a call or is about to return does not hold the lock.
C27_LockReleased ==
  \A t \in Threads :
    /\ pc[t] \in {"idle", "entry", "lock", "ret", "remove_free",
                  "remove_free_value", "remove_free_item"} => lock # t
    /\ InCritical(t) => (lock = t /\ Times(t, "lock") = 1)
    /\ Times(t, "unlock") <= Times(t, "lock") /\ Times(t, "lock") <= 1
    /\ (pc[t] = "ret" /\ call[t].op \in ListOps) =>
         /\ Times(t, "unlock") = Times(t, "lock")
         /\ status[t] \in {LINKEDLIST_SUCCESS, ERANGE} => Times(t, "lock") = 1
         /\ status[t] \in {EINVAL, ENOMEM} => Times(t, "lock") = 0

\* A remove behind the end of the list returned ERANGE while the other
\* thread holds the lock.
C27_Witness ==
  \E t \in Threads : \E u \in Threads \ {t} :
    /\ pc[t] = "ret" /\ call[t].op = "remove" /\ status[t] = ERANGE
    /\ Times(t, "lock") = 1 /\ Times(t, "unlock") = 1
    /\ lock = u

\* C28: linkedlist_remove() unlinks the node while it holds the lock,
\* releases the lock and only then calls the dealloc hook, when the list has
\* one, frees the value and then the node: it holds the lock neither while
\* the hook runs nor while it frees.
C28_RemoveOrder ==
  \A t \in Threads :
    /\ pc[t] = "remove_unlink" => lock = t
    /\ pc[t] \in {"remove_free", "remove_free_value", "remove_free_item"} =>
         /\ lock # t
         /\ item[t] # NULL => item[t] \notin SeqToSet(Chain)
    /\ call[t].op = "remove" =>
         \A i \in Did(t, "dealloc") \cup Did(t, "free_value")
                  \cup Did(t, "free_item") :
           \E j \in Did(t, "unlock") : \E k \in Did(t, "unlink") : k < j /\ j < i
    /\ (pc[t] = "ret" /\ call[t].op = "remove"
        /\ status[t] = LINKEDLIST_SUCCESS) =>
         /\ Kinds(t) = <<"lock", "unlink", "unlock">>
                       \o (IF dealloc # NULL THEN <<"dealloc">> ELSE <<>>)
                       \o <<"free_value", "free_item">>
         /\ \A i \in 1..Len(log[t]) :
              log[t][i].ev \in {"unlink", "dealloc", "free_value", "free_item"}
                => log[t][i].node = item[t]

\* A remove is about to call the dealloc hook on the node it unlinked while
\* the other thread holds the lock.
C28_Witness ==
  \E t \in Threads : \E u \in Threads \ {t} :
    /\ pc[t] = "remove_free" /\ item[t] # NULL /\ dealloc # NULL
    /\ Kinds(t) = <<"lock", "unlink", "unlock">>
    /\ lock = u

\* C29: linkedlist_update() calls the dealloc hook, when the list has one, on
\* the value of the node and then the copy hook into the same buffer, both
\* while it holds the lock, and frees or allocates nothing; while the lock is
\* free no node of the chain has a value that was deallocated and not
\* overwritten, and a get that succeeds returns a whole value: the one the
\* abstract sequence has at its index when get looks at it.
C29_UpdateAtomic ==
  /\ lock \notin Threads =>
       \A n \in SeqToSet(Chain) : node_value[n] \in Values
  /\ \A t \in Threads :
       /\ pc[t] \in {"update_find", "update_dealloc", "update_copy"} => lock = t
       /\ (call[t].op = "update" /\ pc[t] \in {"unlock", "ret"}
           /\ status[t] = LINKEDLIST_SUCCESS) =>
            /\ Kinds(t) = <<"lock">>
                          \o (IF dealloc # NULL THEN <<"dealloc">> ELSE <<>>)
                          \o <<"copy">>
                          \o (IF pc[t] = "ret" THEN <<"unlock">> ELSE <<>>)
            /\ \A i \in Did(t, "dealloc") \cup Did(t, "copy") :
                 log[t][i].node = item[t]
            /\ pc[t] = "unlock" =>
                 /\ vbuf[item[t]] = "live"
                 /\ node_data[item[t]] = OwnData(item[t])
                 /\ node_value[item[t]] = call[t].value
       /\ (pc[t] = "ret" /\ call[t].op = "get"
           /\ status[t] = LINKEDLIST_SUCCESS) =>
            /\ out[t] \in Values
            /\ out[t] = exp[t].out

\* A get waits for the lock while an update of the index it asks for has
\* called the dealloc hook on the value and not yet copied the new one.
C29_Witness ==
  \E t \in Threads : \E u \in Threads \ {t} :
    /\ pc[u] = "update_copy" /\ node_value[item[u]] = RELEASED
    /\ pc[t] = "lock" /\ call[t].op = "get"
    /\ Walk(node_next, head, call[t].index) = item[u]

\* The state of the lock of the list.
LockState ==
  CASE lock = UNSET     -> "Uninitialized"
    [] lock = NULL      -> "Ready"
    [] lock = DESTROYED -> "Destroyed"
    [] OTHER            -> "Locked"

\* The steps that call into the lock of the list.
Initializes(t) ==
  /\ pc[t] = "entry" /\ call[t].op = "initialize"
  /\ pc'[t] = "ret" /\ status'[t] = LINKEDLIST_SUCCESS
Acquires(t) == pc[t] = "lock" /\ InCritical(t)'
Releases(t) == pc[t] = "unlock" /\ pc'[t] # "unlock"
Destroys(t) == pc[t] = "destroy_lock" /\ pc'[t] # "destroy_lock"

\* The four transitions of the state machine of the lock.
LockTransition ==
  \/ /\ LockState = "Uninitialized" /\ LockState' = "Ready"
     /\ \E t \in Threads : Initializes(t)
  \/ /\ LockState = "Ready" /\ LockState' = "Locked"
     /\ \E t \in Threads : Acquires(t) /\ lock' = t
  \/ /\ LockState = "Locked" /\ LockState' = "Ready"
     /\ \E t \in Threads : Releases(t) /\ lock = t
  \/ /\ LockState = "Ready" /\ LockState' = "Destroyed"
     /\ \E t \in Threads : Destroys(t)

\* linkedlist_initialize() on a destroyed list makes its lock Ready again.
LockReinitialized ==
  /\ LockState = "Destroyed" /\ LockState' = "Ready"
  /\ \E t \in Threads : Initializes(t)

\* The calls into the lock find it in the state they need: an acquire finds
\* it Ready and makes the caller its holder, a release is made by the
\* holder, a destroy never finds it Locked.
LockCallsInOrder ==
  \A t \in Threads :
    /\ Acquires(t) => lock = NULL /\ lock' = t
    /\ Releases(t) => lock = t /\ lock' = NULL
    /\ Destroys(t) => lock \notin Threads

linkedlist_destroy_step(t) ==
  \/ linkedlist_destroy_entry(t)
  \/ linkedlist_destroy_loop(t)
  \/ linkedlist_destroy_lock(t)
  \/ linkedlist_destroy_invalidate(t)

\* C30: linkedlist_destroy() never acquires, releases or waits for the lock:
\* each of its steps can be taken whatever the state of the lock; and a
\* read or write of freed memory or a use of the destroyed or held lock out
\* of turn happens only in executions in which a linkedlist_destroy()
\* overlapped another call.
C30_DestroyUnlocked ==
  /\ fault => raced
  /\ \A t \in Threads :
       /\ call[t].op = "destroy" =>
            /\ lock # t
            /\ Did(t, "lock") = {} /\ Did(t, "unlock") = {}
       /\ (call[t].op = "destroy" /\ pc[t] \notin {"idle", "ret"}) =>
            ENABLED linkedlist_destroy_step(t)

\* A get that passed its initialized check and holds the lock has read the
\* node linkedlist_destroy() of another thread freed meanwhile.
C30_Witness ==
  \E t \in Threads : \E u \in Threads \ {t} :
    /\ fault /\ raced
    /\ call[u].op = "destroy" /\ pc[u] \in {"destroy_loop", "destroy_lock"}
    /\ call[t].op = "get" /\ pc[t] = "unlock" /\ lock = t
    /\ head # NULL /\ mem[head] = "freed"

\* The memory of the list: its members, its nodes and their values.
ListMemory == <<listvars, heapvars, node_data>>

\* C31: linkedlist_get() and linkedlist_length() are read-only: no step of
\* such a call, successful or failed, changes a member of the list, a node,
\* a link or a value, so the chain after any number of them is the chain
\* before; they call no dealloc hook and free nothing, and when the call
\* returns, the list answers every get and length as before the call.
C31_ReadOnly ==
  /\ [](\A t \in Threads :
          (pc[t] # "idle" /\ call[t].op \in {"get", "length"}) =>
            /\ \A e \in {"dealloc", "link", "unlink", "free_value",
                         "free_item"} : Did(t, e) = {}
            /\ pre.len # NONE =>
                 /\ <<head, item_size, copy, dealloc>>
                      = <<pre.list.head, pre.list.item_size, pre.list.copy,
                          pre.list.dealloc>>
                 /\ Observed.heap = pre.heap
                 /\ Chain = pre.chain
                 /\ Observed.len = pre.len
                 /\ Observed.get = pre.get)
  /\ [][(\E t \in Threads : pc[t] # "idle" /\ call[t].op \in {"get", "length"})
          => UNCHANGED ListMemory]_vars

\* A length that follows a successful get on a list of two elements with a
\* dealloc hook returns 2.
C31_Witness ==
  \E t \in Threads :
    /\ Returning(t, "length") /\ status[t] = LINKEDLIST_SUCCESS
    /\ out[t] = 2 /\ pre.len = 2 /\ dealloc # NULL
    /\ budget[t] <= SeqCalls - 4

\* The statuses pthread_mutex_init() gave the call of the thread t.
InitFailures(t) == {log[t][i].node : i \in Did(t, "mutex_init_failed")}

\* C32: when pthread_mutex_init() fails, linkedlist_initialize() returns the
\* status it got from it and has written no member of the list: head, item
\* size, copy, dealloc, the lock and the nodes are as the call found them,
\* and the list looks initialized after the call only if it did before.
C32_LockFailurePropagates ==
  \A t \in Threads :
    (pc[t] = "ret" /\ call[t].op = "initialize") =>
      /\ status[t] \notin {LINKEDLIST_SUCCESS, EINVAL} =>
           /\ InitFailures(t) = {status[t]}
           /\ Did(t, "mutex_init") = {}
           /\ pre.len # NONE =>
                /\ Observed.list = pre.list
                /\ Observed.heap = pre.heap
                /\ linkedlist_initialized(call[t].list, item_size, copy)
                     = linkedlist_initialized(call[t].list, pre.list.item_size,
                                              pre.list.copy)
      /\ InitFailures(t) # {} => status[t] \in InitFailures(t)

\* linkedlist_initialize() with valid arguments on a list that was never
\* initialized returns EAGAIN from pthread_mutex_init(): the list is still
\* not initialized.
C32_Witness ==
  \E t \in Threads :
    /\ pc[t] = "ret" /\ call[t].op = "initialize"
    /\ status[t] = EAGAIN /\ InitFailures(t) = {EAGAIN}
    /\ call[t].copy # NULL
    /\ lock = UNSET /\ copy = NULL
    /\ ~linkedlist_initialized(call[t].list, item_size, copy)

\* C33: in every state of an initialized list, whatever the threads are
\* doing, the chain from the head is finite, ends in NULL and holds no node
\* twice, and every node of it is a live allocation with a live value buffer
\* of list->_item_size bytes.
C33_ChainWellFormed ==
  LET c == Chain
  IN  /\ Len(c) <= MaxNodes
      /\ \A i, j \in 1..Len(c) : c[i] = c[j] => i = j
      /\ IF c = <<>> THEN head = NULL
         ELSE head = c[1] /\ node_next[c[Len(c)]] = NULL
      /\ \A i \in 1..Len(c) - 1 : node_next[c[i]] = c[i + 1]
      /\ item_size = ItemSize
      /\ \A n \in SeqToSet(c) :
           /\ n \in Nodes
           /\ mem[n] = "live"
           /\ vbuf[n] = "live"
           /\ node_value[n] # NULL
           /\ vsize[n] = item_size

\* The chain holds a node while one thread frees the node it unlinked and
\* the other is about to link the node it allocated.
C33_Witness ==
  \E t \in Threads : \E u \in Threads \ {t} :
    /\ Len(Chain) = 1
    /\ pc[t] = "remove_free" /\ item[t] # NULL /\ mem[item[t]] = "live"
    /\ pc[u] = "add_link" /\ lock = u

\* The nodes on which the copy hook returned NULL in the call of the thread t.
CopyFailed(t) == {log[t][i].node : i \in Did(t, "copy_failed")}

\* C34: linkedlist_add(), linkedlist_update() and linkedlist_get() do not
\* look at what the copy hook returns.  When it returned NULL the call goes
\* on and returns LINKEDLIST_SUCCESS: add has linked its node, update has
\* called the dealloc hook on the old value before, get leaves the buffer of
\* the caller as it was; none of them frees or unlinks anything.
C34_CopyResultIgnored ==
  \A t \in Threads :
    CopyFailed(t) # {} =>
      /\ status[t] \in {NONE, LINKEDLIST_SUCCESS}
      /\ pc[t] = "ret" => status[t] = LINKEDLIST_SUCCESS
      /\ \A e \in {"unlink", "free_value", "free_item"} : Did(t, e) = {}
      /\ call[t].op \in {"add", "update", "get"}
      /\ (call[t].op = "add" /\ pc[t] = "ret") =>
           /\ CopyFailed(t) = {item[t]}
           /\ Did(t, "link") # {}
           /\ Chain # <<>> /\ Chain[Len(Chain)] = item[t]
           /\ mem[item[t]] = "live" /\ vbuf[item[t]] = "live"
           /\ pre.len # NONE => Len(Chain) = pre.len + 1
      /\ call[t].op = "update" =>
           /\ dealloc # NULL =>
                /\ Did(t, "dealloc") # {}
                /\ \A i \in Did(t, "dealloc") : \A j \in Did(t, "copy_failed") :
                     i < j /\ log[t][i].node = log[t][j].node
                /\ \A n \in CopyFailed(t) : node_value[n] = RELEASED
           /\ pre.len # NONE => Chain = pre.chain
      /\ call[t].op = "get" =>
           /\ out[t] = UNSET
           /\ pre.len # NONE => Chain = pre.chain /\ Observed.heap = pre.heap

\* An update whose copy hook returned NULL returns LINKEDLIST_SUCCESS after
\* the dealloc hook was called on the value it was to replace.
C34_Witness ==
  \E t \in Threads :
    /\ pc[t] = "ret" /\ call[t].op = "update"
    /\ status[t] = LINKEDLIST_SUCCESS
    /\ CopyFailed(t) = {item[t]}
    /\ Did(t, "dealloc") # {}
    /\ node_value[item[t]] = RELEASED

\* The thread t has returned from a linkedlist_initialize() with valid
\* arguments that it made on an initialized list of at least one item.
Reinitialized(t) ==
  /\ pc[t] = "ret" /\ call[t].op = "initialize"
  /\ call[t].list # NULL /\ call[t].size > 0
  /\ pre.len # NONE /\ pre.len > 0
  /\ pre.list.lock = NULL
  /\ linkedlist_initialized(call[t].list, pre.list.item_size, pre.list.copy)
  /\ \A n \in SeqToSet(pre.chain) : pre.heap.mem[n] = "live"

\* What a successful linkedlist_initialize() does to the items the list held:
\* the list is empty and has a new lock, and the old nodes and their values
\* are as they were, neither passed to the dealloc hook nor freed, and out of
\* reach.
OldItemsOrphaned(t) ==
  /\ head = NULL /\ Chain = <<>> /\ Observed.len = 0
  /\ lock = NULL /\ Did(t, "mutex_init") # {}
  /\ \A e \in {"dealloc", "free_value", "free_item"} : Did(t, e) = {}
  /\ Observed.heap = pre.heap
  /\ \A n \in SeqToSet(pre.chain) :
       /\ mem[n] = "live" /\ vbuf[n] = "live"
       /\ n \in orphans

\* C35 as stated: linkedlist_initialize() on an initialized list of n > 0
\* items returns success, empties the list and constructs a new lock; the n
\* old nodes are neither deallocated nor freed and are out of reach.
C35_Original ==
  \A t \in Threads :
    Reinitialized(t) =>
      /\ status[t] = LINKEDLIST_SUCCESS
      /\ OldItemsOrphaned(t)

\* C35: linkedlist_initialize() on an initialized list of n > 0 items does
\* not look at the items.  It returns success unless pthread_mutex_init()
\* fails; on success the list is empty with a new lock and the n old nodes
\* are neither deallocated nor freed and are out of reach; when
\* pthread_mutex_init() fails it returns that status and the list holds its
\* n items as before.
C35_InitializeForgets ==
  \A t \in Threads :
    Reinitialized(t) =>
      /\ status[t] \in {LINKEDLIST_SUCCESS} \cup MutexInitErrors
      /\ status[t] = LINKEDLIST_SUCCESS => OldItemsOrphaned(t)
      /\ status[t] # LINKEDLIST_SUCCESS =>
           /\ Observed.list = pre.list
           /\ Observed.heap = pre.heap
           /\ Observed.len = pre.len
           /\ Did(t, "mutex_init") = {}

\* A list of two items with a dealloc hook was initialized again.
C35_Witness ==
  \E t \in Threads :
    /\ Reinitialized(t) /\ status[t] = LINKEDLIST_SUCCESS
    /\ pre.len = 2 /\ pre.list.dealloc # NULL
    /\ Cardinality(orphans) = 2

\* The thread t has returned from a linkedlist_initialize() with valid
\* arguments that it made on a destroyed list.
InitializedAgain(t) ==
  /\ pc[t] = "ret" /\ call[t].op = "initialize"
  /\ call[t].list # NULL /\ call[t].size > 0
  /\ pre.len # NONE
  /\ pre.list.lock = DESTROYED
  /\ pre.list.copy = NULL /\ pre.list.head = NULL

\* The list is as a first linkedlist_initialize() with the arguments of the
\* call of t leaves it: no item, the members from the arguments, a free lock.
FreshList(t) ==
  /\ <<head, item_size, copy, dealloc>>
       = <<NULL, call[t].size,
           IF call[t].copy # NULL THEN call[t].copy ELSE memcpy,
           call[t].dealloc>>
  /\ lock = NULL /\ Did(t, "mutex_init") # {}
  /\ linkedlist_initialized(call[t].list, item_size, copy)
  /\ Chain = <<>> /\ S = <<>>
  /\ Observed.len = 0
  /\ \A i \in ObsIndices : Observed.get[i].status = ERANGE

\* The calls on an initialized list answer as the sequence of the values
\* added since the last linkedlist_initialize() tells.
AnswersAsSequence(t) ==
  (pc[t] = "ret" /\ call[t].op \in ListOps
   /\ lock = NULL /\ linkedlist_initialized(call[t].list, item_size, copy)) =>
    /\ ChainValues = S
    /\ status[t] = exp[t].status
    /\ out[t] = exp[t].out

\* C36 as stated: linkedlist_initialize() on a destroyed list returns success
\* and leaves an empty list that holds none of the old items and on which
\* add, get, update, remove and length answer as on a fresh list.
C36_Original ==
  \A t \in Threads :
    /\ InitializedAgain(t) =>
         status[t] = LINKEDLIST_SUCCESS /\ FreshList(t)
    /\ AnswersAsSequence(t)

\* C36: linkedlist_initialize() on a destroyed list returns success unless
\* pthread_mutex_init() fails, and then leaves an empty list that holds none
\* of the old items and on which add, get, update, remove and length answer
\* as on a fresh list; when pthread_mutex_init() fails the list stays
\* destroyed.
C36_InitializeAfterDestroy ==
  \A t \in Threads :
    /\ InitializedAgain(t) =>
         /\ status[t] \in {LINKEDLIST_SUCCESS} \cup MutexInitErrors
         /\ status[t] = LINKEDLIST_SUCCESS => FreshList(t)
         /\ status[t] # LINKEDLIST_SUCCESS =>
              /\ Observed.list = pre.list
              /\ ~linkedlist_initialized(call[t].list, item_size, copy)
    /\ AnswersAsSequence(t)

\* A list that held an item was destroyed and initialized again; after a new
\* add, get(0) returns the new value and the list holds that item only.
C36_Witness ==
  \E t \in Threads :
    /\ pc[t] = "ret" /\ call[t].op = "get" /\ call[t].index = 0
    /\ status[t] = LINKEDLIST_SUCCESS /\ out[t] \in Values
    /\ Len(Chain) = 1 /\ S = <<out[t]>>
    /\ nremoves = 0 /\ orphans = {}
    /\ \E n \in Nodes : vbuf[n] = "freed" /\ mem[n] = "freed"

\* C37: while several threads add concurrently, the values one thread added
\* are in the list in the order of its calls: the index of the value of an
\* earlier add of a thread is below the index of the value of every later
\* add of the same thread, in every state and whatever the other threads add
\* in between.
C37_PerThreadOrder ==
  \A t \in Threads : \A k1, k2 \in 1..MaxCalls :
    k1 < k2 =>
      /\ \A i \in IndicesOf(AddValue(t, k1)) :
           \A j \in IndicesOf(AddValue(t, k2)) : i < j
      /\ \A i \in 1..Len(S) : \A j \in 1..Len(S) :
           (S[i] = AddValue(t, k1) /\ S[j] = AddValue(t, k2)) => i < j

\* Two threads added two values each and the adds interleaved: the list holds
\* the first of one thread, the first of the other, then the second of each.
C37_Witness ==
  /\ Completed
  /\ ChainValues = <<AddValue(1, 1), AddValue(2, 1), AddValue(1, 2),
                     AddValue(2, 2)>>

\* C38: a query that fails writes nothing to the caller: when
\* linkedlist_get() returns EINVAL or ERANGE the buffer is as the caller
\* passed it and the copy hook was not called, and when linkedlist_length()
\* returns EINVAL the length buffer is as the caller passed it.
C38_FailedQueryWritesNothing ==
  \A t \in Threads :
    /\ (call[t].op = "get" /\ status[t] \in {EINVAL, ERANGE}) =>
         /\ out[t] = UNSET
         /\ out_data[t] = NULL
         /\ Did(t, "copy") = {}
    /\ (call[t].op = "length" /\ status[t] = EINVAL) =>
         out[t] = UNSET
    /\ (call[t].op \in {"get", "length"} /\ out[t] # UNSET) =>
         status[t] \in {NONE, LINKEDLIST_SUCCESS}

\* A length with a buffer on a destroyed list returns EINVAL.
C38_Witness ==
  \E t \in Threads :
    /\ pc[t] = "ret" /\ call[t].op = "length" /\ status[t] = EINVAL
    /\ call[t].list # NULL /\ call[t].buffer # NULL
    /\ lock = DESTROYED /\ item_size # 0
    /\ out[t] = UNSET

\* C39: a handle of the lock layer that is not NULL points to a native mutex
\* that is allocated and initialized, after every sequence of calls into the
\* lock layer; a linkedlist_mutex_initialize() that returned an error has
\* left the handle NULL.
C39_HandleLive ==
  /\ mutex # NULL => NativeState(mutex) \in {"ready", "locked"}
  /\ \A t \in Threads :
       (pc[t] = "ret" /\ call[t].op = "mutex_initialize"
        /\ call[t].lock # NULL /\ status[t] # LINKEDLIST_MUTEX_SUCCESS) =>
          mutex = NULL

====
